---- MODULE Spec2Model ----
(***************************************************************************)
(* Verification model of the CMIP-LD viewer's JSON-LD context resolution   *)
(* (static/viewer/modules/document-loader.js, static/viewer/viewer.js,     *)
(* notebooks/outdated/getting_data.ipynb) and of the document fetcher.     *)
(***************************************************************************)
EXTENDS Integers, Sequences, FiniteSets, TLC

(***************************************************************************)
(* Bounds of the model.                                                    *)
(***************************************************************************)
\* longest @context array given to a resolver at top level
MaxArr == 2
\* longest @context array found inside a fetched context document
MaxDocArr == 2
\* recursion depth explored before a resolution is reported as not returning
MaxDepth == 16
\* fetchDocument calls that may be in progress at the same time
MaxCalls == 2
\* length of the corsProxies list handed to the DocumentLoader
NumProxies == 2
\* network requests per URL after which no further request is explored
MaxRequests == 3
\* loadData invocations that may be in progress at the same time
MaxLoads == 2
\* longest inline @context array of a main document whose view is compacted
MaxViewArr == 2
\* pieces of the longest string given to link-value normalization
MaxStrLen == 3
\* items of the longest @context array of a _context_ file
MaxCtxRefs == 2
\* items of the longest array handed to mergeContext
MaxMerged == 2

(***************************************************************************)
(* JSON values.  A @context value is a tagged record: null/absent, a       *)
(* number (any non-string, non-object scalar), a string (a URL reference), *)
(* an object (term -> definition) or an array of @context values.          *)
(***************************************************************************)
Null == [k |-> "null"]
Num == [k |-> "num"]
Str(r) == [k |-> "str", ref |-> r]
Obj(d) == [k |-> "obj", defs |-> d]
Arr(s) == [k |-> "arr", items |-> s]

\* The empty JS object {} as a term map.
EmptyMap == [x \in {} |-> Null]

\* A string used as a URL: absolute ("http...") with a directory and a file
\* name, or relative (a bare file name such as "_context_").
Abs(d, n) == [abs |-> TRUE, dir |-> d, name |-> n]
Rel(n) == [abs |-> FALSE, dir |-> "", name |-> n]

\* A term definition: its own value and the term-scoped @context nested in
\* it (Null when the definition is a plain string or has no @context key).
Plain(v) == [v |-> v, sub |-> Null]
Scoped(v, c) == [v |-> v, sub |-> c]

\* JS truthiness of a @context value (objects and arrays are always truthy,
\* the modelled number is non-zero, URL strings are non-empty).
Truthy(c) == c.k # "null"

Names == {"A", "B"}
\* Iteration order of Object.entries over the modelled term names.
KeyOrder == <<"@base", "t", "u">>

\* The document that carries the top-level @context.
MainUrl == Abs("d1", "main")

(***************************************************************************)
(* Input space: inline context objects, array items, fetched documents.    *)
(***************************************************************************)
ObjA == Obj("t" :> Plain("a"))
ObjB == Obj(("t" :> Plain("b")) @@ ("u" :> Plain("b")))
ObjN == Obj("u" :> Scoped("c", Obj("t" :> Plain("c"))))
ObjNU == Obj("u" :> Scoped("c", Str(Rel("B"))))

DocItems == {Str(Rel("B")), Str(Abs("d2", "B")), ObjA, ObjB}
InputItems == {Str(Rel("A")), Str(Rel("B")), Str(Abs("d2", "A")), ObjA, ObjB, ObjN, ObjNU}

SeqsUpTo(S, n) == UNION {[1..m -> S] : m \in 0..n}

CtxValues(S, n) == S \cup {Arr(s) : s \in SeqsUpTo(S, n)}

\* What the network holds under a file name: nothing fetchable, a document
\* without @context, or a document with the given @context.
Fail == [k |-> "fail"]
NoCtx == [k |-> "doc", ctx |-> Null]
Doc(c) == [k |-> "doc", ctx |-> c]

DocKindsA == {Fail, NoCtx, Doc(Num)} \cup {Doc(c) : c \in CtxValues(DocItems, MaxDocArr)}
DocKindsB == {Fail, NoCtx, Doc(ObjB), Doc(Str(Rel("A"))), Doc(Str(Abs("d2", "A"))),
              Doc(Arr(<<Str(Rel("A")), ObjB>>)), Doc(Arr(<<ObjA, Str(Rel("A"))>>))}

Inputs == {Null, Num} \cup CtxValues(InputItems, MaxArr)

\* One resolution run: the network, the @context handed to the resolver, and
\* what the resolver returned.
VARIABLES world, input, phase, resolver, result

\* The DocumentLoader under concurrent fetchDocument calls: the cache, the
\* calls in progress and the number of network requests sent per URL.
VARIABLES loadedDocuments, contextDocuments, calls, requests

\* A viewer page: the documents on the network and their links, the loadData
\* invocations in progress and the CMIPLDViewer / JSONLDProcessor fields.
VARIABLES linkGraph, offline, controls, loads, documents, mainDocumentUrl,
          mergedContext, entityIndex, currentViewData

\* A JSONLDProcessor: its resolvedContext and the last manual expansion and
\* IRI expansion it was asked for.
VARIABLES resolvedContext, expansion, iri

\* The main document stored by the viewer and its compacted view.
VARIABLES mainDoc, compacted

\* A ContextManager: its context and the last normalization it performed.
VARIABLES cmContext, normalized

\* The validator: the files of its directory, the module's DEFAULT_VALUES,
\* the JSONValidator object, the git repository and the exit code of main.
VARIABLES disk, DEFAULT_VALUES, validator, git, exitCode

\* A run of ld2graph: the files it finds, its position, what it resolved
\* and what it wrote.
VARIABLES ld2graph

\* The last call of mergeContext or buildResolvedContext made on its own.
VARIABLES contextCall

rvars == <<world, input, phase, resolver, result>>
lvars == <<loadedDocuments, contextDocuments, calls, requests>>
svars == <<linkGraph, offline, controls, loads, documents, mainDocumentUrl,
           mergedContext, entityIndex, currentViewData>>
\* The state of the subsystems that context resolution and the fetcher do
\* not touch.
evars == <<resolvedContext, expansion, iri>>
cvars == <<mainDoc, compacted>>
nvars == <<cmContext, normalized>>
jvars == <<disk, DEFAULT_VALUES, validator, git, exitCode>>
gvars == <<ld2graph>>
bvars == <<contextCall>>
xvars == <<evars, cvars, nvars, jvars, gvars, bvars>>
ovars == <<svars, xvars>>
vars == <<world, input, phase, resolver, result,
          loadedDocuments, contextDocuments, calls, requests,
          linkGraph, offline, controls, loads, documents, mainDocumentUrl,
          mergedContext, entityIndex, currentViewData,
          resolvedContext, expansion, iri, mainDoc, compacted,
          cmContext, normalized, disk, DEFAULT_VALUES, validator, git, exitCode,
          ld2graph, contextCall>>

\* The body served for a URL: the same file name serves the same body in
\* every directory.
Served(url) == IF url.name \in Names THEN world[url.name] ELSE Fail

(***************************************************************************)
(* Utils.resolveUrl: a relative reference is resolved against the          *)
(* directory of the base URL.                                              *)
(***************************************************************************)
resolveUrl(ref, baseUrl) == Abs(baseUrl.dir, ref.name)

ObjectAssignKeepFirst(target, source) ==
  [x \in (DOMAIN target) \cup (DOMAIN source) |->
     IF x \in DOMAIN target THEN target[x] ELSE source[x]]

(***************************************************************************)
(* Object.assign(target, source) on term maps.                             *)
(***************************************************************************)
ObjectAssign(target, source) ==
  [x \in (DOMAIN target) \cup (DOMAIN source) |->
     IF x \in DOMAIN source THEN source[x] ELSE target[x]]

(***************************************************************************)
(* DocumentLoader.mergeContext(target, source).                            *)
(***************************************************************************)
RECURSIVE mergeContext(_, _)
RECURSIVE mergeContextEach(_, _, _)
mergeContextEach(target, items, i) ==
  IF i > Len(items) THEN target
  ELSE mergeContextEach(mergeContext(target, items[i]), items, i + 1)

mergeContext(target, source) ==
  IF source.k = "obj" THEN
    LET t1 == IF "@base" \in DOMAIN source.defs /\ "@base" \notin DOMAIN target
              THEN ObjectAssign(target, [x \in {"@base"} |-> source.defs[x]])
              ELSE target
    IN ObjectAssign(t1, source.defs)
  ELSE IF source.k = "arr" THEN mergeContextEach(target, source.items, 1)
  ELSE target

(***************************************************************************)
(* DocumentLoader.fetchDocument as seen by one resolution: a cache hit, an *)
(* "Invalid URL" error for a string that does not start with http, or the  *)
(* outcome of the network.  cache is the key set of loadedDocuments.       *)
(***************************************************************************)
fetchDocument(url, cache) ==
  IF url \in cache THEN [ok |-> TRUE, doc |-> Served(url), cache |-> cache]
  ELSE IF ~url.abs THEN [ok |-> FALSE, doc |-> Fail, cache |-> cache]
  ELSE IF Served(url).k = "fail" THEN [ok |-> FALSE, doc |-> Fail, cache |-> cache]
  ELSE [ok |-> TRUE, doc |-> Served(url), cache |-> cache \cup {url}]

\* The loader state threaded through one resolution: the `loaded` set of
\* collectAndLoadContexts, the keys of loadedDocuments and contextDocuments.
St0 == [loaded |-> {}, cache |-> {}, ctxDocs |-> {}]

Ret(s, c, st) == [status |-> s, ctx |-> c, st |-> st]

NeverLoaded(loaded, url) == FALSE

\* collectAndLoadContexts line 88: the URL is skipped when it is in `loaded`.
AlreadyLoaded(loaded, url) == url \in loaded

Rethrow(st) == Ret("threw", EmptyMap, st)

\* collectAndLoadContexts lines 99-101: the catch block swallows the error.
OnFetchError(st) == Ret("ok", EmptyMap, st)

(***************************************************************************)
(* DocumentLoader.collectAndLoadContexts(context, baseUrl, loaded).        *)
(***************************************************************************)
RECURSIVE collectAndLoadContexts(_, _, _, _)
RECURSIVE collectArray(_, _, _, _, _, _)
RECURSIVE collectNested(_, _, _, _, _, _)

\* lines 104-107: for (const ctx of context) { ...; Object.assign(...) }
collectArray(items, i, baseUrl, contexts, st, fuel) ==
  IF i > Len(items) THEN Ret("ok", contexts, st)
  ELSE LET n == collectAndLoadContexts(items[i], baseUrl, st, fuel)
       IN IF n.status # "ok" THEN Ret(n.status, contexts, n.st)
          ELSE collectArray(items, i + 1, baseUrl, ObjectAssign(contexts, n.ctx), n.st, fuel)

ignoreNested(defs, i, baseUrl, contexts, st, fuel) == Ret("ok", contexts, st)

\* lines 112-117: follow the @context found inside a term's definition.
collectNested(defs, i, baseUrl, contexts, st, fuel) ==
  IF i > Len(KeyOrder) THEN Ret("ok", contexts, st)
  ELSE IF KeyOrder[i] \in DOMAIN defs /\ Truthy(defs[KeyOrder[i]].sub) THEN
    LET n == collectAndLoadContexts(defs[KeyOrder[i]].sub, baseUrl, st, fuel)
    IN IF n.status # "ok" THEN Ret(n.status, contexts, n.st)
       ELSE collectNested(defs, i + 1, baseUrl, ObjectAssign(contexts, n.ctx), n.st, fuel)
  ELSE collectNested(defs, i + 1, baseUrl, contexts, st, fuel)

collectAndLoadContexts(context, baseUrl, st, fuel) ==
  IF fuel = 0 THEN Ret("diverged", EmptyMap, st)
  ELSE IF context.k = "str" THEN
    LET resolvedUrl == IF context.ref.abs THEN context.ref
                       ELSE resolveUrl(context.ref, baseUrl)
    IN IF AlreadyLoaded(st.loaded, resolvedUrl) THEN Ret("ok", EmptyMap, st)
       ELSE
         LET st1 == [st EXCEPT !.loaded = @ \cup {resolvedUrl}]
             f == fetchDocument(resolvedUrl, st1.cache)
         IN IF ~f.ok THEN OnFetchError(st1)
            ELSE
              LET st2 == [st1 EXCEPT !.cache = f.cache,
                                     !.ctxDocs = @ \cup {resolvedUrl}]
              IN IF Truthy(f.doc.ctx) THEN
                   LET n == collectAndLoadContexts(f.doc.ctx, resolvedUrl, st2, fuel - 1)
                   IN IF n.status = "diverged" THEN n
                      ELSE IF n.status = "threw" THEN OnFetchError(n.st)
                      ELSE Ret("ok", mergeContext(ObjectAssign(EmptyMap, n.ctx), f.doc.ctx), n.st)
                 ELSE Ret("ok", EmptyMap, st2)
  ELSE IF context.k = "arr" THEN
    collectArray(context.items, 1, baseUrl, EmptyMap, st, fuel - 1)
  ELSE IF context.k = "obj" THEN
    collectNested(context.defs, 1, baseUrl, mergeContext(EmptyMap, context), st, fuel - 1)
  ELSE Ret("ok", EmptyMap, st)

(***************************************************************************)
(* CMIPLDViewer.resolveContext(context, baseUrl): the string is handed to  *)
(* fetchDocument as it is, baseUrl is never used.  Only the document cache *)
(* is threaded through.                                                    *)
(***************************************************************************)
RECURSIVE resolveContext(_, _, _, _)
RECURSIVE resolveArray(_, _, _, _, _, _)

\* lines 351-355: for (const ctx of context) { ...; Object.assign(result, resolved) }
resolveArray(items, i, baseUrl, acc, st, fuel) ==
  IF i > Len(items) THEN Ret("ok", acc, st)
  ELSE LET n == resolveContext(items[i], baseUrl, st, fuel)
       IN IF n.status # "ok" THEN Ret(n.status, acc, n.st)
          ELSE resolveArray(items, i + 1, baseUrl, ObjectAssign(acc, n.ctx), n.st, fuel)

resolveContext(context, baseUrl, st, fuel) ==
  IF fuel = 0 THEN Ret("diverged", EmptyMap, st)
  ELSE IF context.k = "str" THEN
    LET f == fetchDocument(context.ref, st.cache)
    IN IF ~f.ok THEN Ret("ok", EmptyMap, st)
       ELSE LET st1 == [st EXCEPT !.cache = f.cache]
            IN IF f.doc.k = "doc" /\ Truthy(f.doc.ctx)
               THEN resolveContext(f.doc.ctx, context.ref, st1, fuel - 1)
               ELSE Ret("ok", EmptyMap, st1)
  ELSE IF context.k = "arr" THEN
    resolveArray(context.items, 1, baseUrl, EmptyMap, st, fuel - 1)
  ELSE IF context.k = "obj" THEN
    Ret("ok", ObjectAssign(EmptyMap, context.defs), st)
  ELSE Ret("ok", EmptyMap, st)

(***************************************************************************)
(* The notebook resolver: resolve_contexts / fetch_resolved_context return *)
(* a list of inline contexts, combine folds the list into one dict.        *)
(***************************************************************************)
\* urllib.parse.urljoin on the modelled references.
urljoin(baseUri, ref) == IF ref.abs THEN ref ELSE Abs(baseUri.dir, ref.name)

\* Python truthiness of a @context value: None, {} and [] are falsy.
PyTruthy(c) ==
  /\ c.k # "null"
  /\ c.k = "obj" => DOMAIN c.defs # {}
  /\ c.k = "arr" => Len(c.items) > 0

\* What list.extend(x) appends: the elements of a list, the keys of a dict.
\* None is not iterable.
\* A dict or a JSON array reaches extend unresolved only when it is empty.
Extendable(v) == v.k \in {"list", "arr", "obj"}
ExtendWith(v) == IF v.k = "list" THEN v.items ELSE <<>>

PyList(s) == [k |-> "list", items |-> s]
PyRet(s, v) == [status |-> s, val |-> v]

RECURSIVE resolve_contexts(_, _, _)
RECURSIVE resolve_list(_, _, _, _, _)
RECURSIVE fetch_resolved_context(_, _)

resolve_list(items, i, base_uri, acc, fuel) ==
  IF i > Len(items) THEN PyRet("ok", PyList(acc))
  ELSE LET n == resolve_contexts(items[i], base_uri, fuel)
       IN IF n.status # "ok" THEN n
          ELSE IF ~Extendable(n.val) THEN PyRet("threw", Null)
          ELSE resolve_list(items, i + 1, base_uri, acc \o ExtendWith(n.val), fuel)

resolve_contexts(contexts, base_uri, fuel) ==
  IF fuel = 0 THEN PyRet("diverged", Null)
  ELSE IF contexts.k = "str" THEN
    fetch_resolved_context(urljoin(base_uri, contexts.ref), fuel - 1)
  ELSE IF contexts.k = "arr" THEN
    resolve_list(contexts.items, 1, base_uri, <<>>, fuel - 1)
  ELSE IF contexts.k = "obj" THEN PyRet("ok", PyList(<<contexts>>))
  ELSE PyRet("threw", Null)

fetch_resolved_context(jsonld_uri, fuel) ==
  IF Served(jsonld_uri).k = "fail" THEN PyRet("threw", Null)
  ELSE LET context == Served(jsonld_uri).ctx
       IN IF PyTruthy(context) THEN resolve_contexts(context, jsonld_uri, fuel)
          ELSE PyRet("ok", context)

RECURSIVE combineFrom(_, _, _)
combineFrom(items, i, newctx) ==
  IF i > Len(items) THEN newctx
  ELSE combineFrom(items, i + 1,
                   IF items[i].k = "obj" THEN ObjectAssign(newctx, items[i].defs)
                   ELSE newctx)

\* combine(context): a term map for a list or a dict, None otherwise.
combine(context) ==
  IF context.k \in {"list", "arr"}
  THEN [k |-> "obj", defs |-> combineFrom(context.items, 1, EmptyMap)]
  ELSE IF context.k = "obj" THEN context
  ELSE Null


(***************************************************************************)
(* DocumentLoader.fetchDocument step by step.  A call runs from its start  *)
(* to its first await in one step (cache lookup, URL check, first request) *)
(* and from one response to the next request or to its end in another.     *)
(***************************************************************************)
Calls == 1..MaxCalls
LUrls == {Abs("d1", "A"), Abs("d1", "B"), Rel("A")}
\* The bodies a URL may serve over time.
Bodies == {"v1", "v2"}
NoBody == "none"

EmptyCache == [u \in {} |-> NoBody]
Idle == [pc |-> "idle", url |-> Rel("A"), proxy |-> 0, ret |-> NoBody]

CacheMiss(docs, url) == FALSE

\* line 13: this.loadedDocuments.has(url)
CacheHit(docs, url) == url \in DOMAIN docs

\* this.loadedDocuments.set(url, data)
MapSet(docs, url, data) ==
  [u \in (DOMAIN docs) \cup {url} |-> IF u = url THEN data ELSE docs[u]]

InitLoader ==
  /\ loadedDocuments = EmptyCache
  /\ contextDocuments = EmptyCache
  /\ calls = [c \in Calls |-> Idle]
  /\ requests = [u \in LUrls |-> 0]

\* lines 12-31: the synchronous prefix of fetchDocument(url).
StartFetch(c, url) ==
  /\ calls[c].pc = "idle"
  /\ IF CacheHit(loadedDocuments, url) THEN
       /\ calls' = [calls EXCEPT ![c] = [pc |-> "returned", url |-> url, proxy |-> 0,
                                        ret |-> loadedDocuments[url]]]
       /\ UNCHANGED requests
     ELSE IF ~url.abs \/ NumProxies = 0 THEN
       /\ calls' = [calls EXCEPT ![c] = [pc |-> "thrown", url |-> url, proxy |-> 0,
                                        ret |-> NoBody]]
       /\ UNCHANGED requests
     ELSE
       /\ requests[url] < MaxRequests
       /\ calls' = [calls EXCEPT ![c] = [pc |-> "awaiting", url |-> url, proxy |-> 1,
                                        ret |-> NoBody]]
       /\ requests' = [requests EXCEPT ![url] = @ + 1]
  /\ UNCHANGED <<loadedDocuments, contextDocuments>>
  /\ UNCHANGED <<rvars, ovars>>

\* lines 40-50: the response is ok and parses: cache it and return it.
ResponseOk(c, data) ==
  /\ calls[c].pc = "awaiting"
  /\ loadedDocuments' = MapSet(loadedDocuments, calls[c].url, data)
  /\ calls' = [calls EXCEPT ![c].pc = "returned", ![c].ret = data]
  /\ UNCHANGED <<contextDocuments, requests>>
  /\ UNCHANGED <<rvars, ovars>>

\* lines 52-63: the request failed: try the next proxy, or throw the last error.
ResponseError(c) ==
  /\ calls[c].pc = "awaiting"
  /\ IF calls[c].proxy < NumProxies THEN
       /\ requests[calls[c].url] < MaxRequests
       /\ calls' = [calls EXCEPT ![c].proxy = @ + 1]
       /\ requests' = [requests EXCEPT ![calls[c].url] = @ + 1]
     ELSE
       /\ calls' = [calls EXCEPT ![c].pc = "thrown"]
       /\ UNCHANGED requests
  /\ UNCHANGED <<loadedDocuments, contextDocuments>>
  /\ UNCHANGED <<rvars, ovars>>

\* The caller takes the outcome of a finished call.
Settle(c) ==
  /\ calls[c].pc \in {"returned", "thrown"}
  /\ calls' = [calls EXCEPT ![c] = Idle]
  /\ UNCHANGED <<loadedDocuments, contextDocuments, requests>>
  /\ UNCHANGED <<rvars, ovars>>

\* DocumentLoader.clear(): a new session starts.
Clear ==
  /\ loadedDocuments' = EmptyCache
  /\ contextDocuments' = EmptyCache
  /\ requests' = [u \in LUrls |-> 0]
  /\ UNCHANGED calls
  /\ UNCHANGED <<rvars, ovars>>

NextLoader ==
  \/ \E c \in Calls, url \in LUrls : StartFetch(c, url)
  \/ \E c \in Calls, data \in Bodies : ResponseOk(c, data)
  \/ \E c \in Calls : ResponseError(c)
  \/ \E c \in Calls : Settle(c)
  \/ Clear

(***************************************************************************)
(* The viewer page (viewer.js).  Every document on the network has an      *)
(* expanded form {"@id": url, "p": [{"@id": l1}, ...]} whose references    *)
(* are given by linkGraph, and an inline @context defining one term named  *)
(* after the document.  A loadData invocation runs from its start to its   *)
(* first await in one step, from the main document's response to the end   *)
(* of loadLinkedDocuments in a second, and from there to its end.          *)
(***************************************************************************)
DocM == Abs("d1", "M")
DocA == Abs("d1", "A")
DocB == Abs("d1", "B")
DocC == Abs("d1", "C")
VDocs == {DocM, DocA, DocB, DocC}
\* The documents that other documents refer to.  C is a leaf that only B
\* refers to.
VTargets == {DocA, DocB}
LinksFrom(u) ==
  IF u = DocC THEN {} ELSE IF u = DocB THEN {DocA, DocC} ELSE VTargets \ {u}
Loads == 1..MaxLoads
\* The URIs typed into the page.
LoadUris == {DocM, DocB}
\* Values of the depth control; parseInt(v) || 2 reads 0 as 2.
DepthInputs == {0, 1, 2}

\* The references a document may carry: distinct link targets in any order,
\* none of them the document itself.
LinkSeqs(u) ==
  {s \in UNION {[1..k -> LinksFrom(u)] : k \in 0..Cardinality(LinksFrom(u))} :
     \A i, j \in DOMAIN s : i # j => s[i] # s[j]}

\* mainDocumentUrl = null
NoUrl == [abs |-> FALSE, dir |-> "", name |-> "null"]
NoView == [k |-> "none"]
NoLoad == [pc |-> "idle", uri |-> NoUrl, depth |-> 0, followLinks |-> FALSE]

\* A reference object {"@id": u} and a node object with its references.
Ref(u) == [k |-> "ref", id |-> u]
Node(u, items) == [k |-> "node", id |-> u, p |-> items]

\* jsonld.expand of the document at url (viewer.js lines 177 and 237).
Expanded(url) ==
  Node(url, [i \in 1..Len(linkGraph[url]) |-> Ref(linkGraph[url][i])])

\* Utils.resolvePrefix on an absolute URL.
resolvePrefix(uri) == uri

\* The keys of the documents map, in insertion order.
Has(docs, url) == \E i \in DOMAIN docs : docs[i] = url

\* viewer.js lines 213-257.  linkedUrls holds the references of the expanded
\* document in the order found; a fetch is answered from loadedDocuments,
\* fails for an offline URL, and is cached otherwise.
RECURSIVE loadLinkedDocuments(_, _, _, _)
RECURSIVE loadLinked(_, _, _, _, _)
loadLinked(urls, i, depth, docs, cache) ==
  IF i > Len(urls) THEN [docs |-> docs, cache |-> cache]
  ELSE LET url == urls[i]
       IN IF Has(docs, url) THEN loadLinked(urls, i + 1, depth, docs, cache)
          ELSE IF ~CacheHit(cache, url) /\ url \in offline
          THEN loadLinked(urls, i + 1, depth, docs, cache)
          ELSE LET cache1 == IF CacheHit(cache, url) THEN cache
                             ELSE MapSet(cache, url, "v1")
                   docs1 == Append(docs, url)
                   r == IF depth > 1
                        THEN loadLinkedDocuments(url, depth - 1, docs1, cache1)
                        ELSE [docs |-> docs1, cache |-> cache1]
               IN loadLinked(urls, i + 1, depth, r.docs, r.cache)

loadLinkedDocuments(baseUrl, depth, docs, cache) ==
  IF depth <= 0 THEN [docs |-> docs, cache |-> cache]
  ELSE loadLinked(linkGraph[baseUrl], 1, depth, docs, cache)

\* viewer.js lines 488-533 with the default maxDepth.
maxDepth == 10

RECURSIVE substituteLinks(_, _, _)
substituteLinks(data, substitutionMap, depth) ==
  IF depth > maxDepth THEN data
  ELSE IF data.k = "ref" THEN data
  ELSE Node(data.id,
            [i \in DOMAIN data.p |->
               IF data.p[i].k = "ref" /\ data.p[i].id \in substitutionMap
               THEN substituteLinks(Expanded(data.p[i].id), substitutionMap, depth + 1)
               ELSE substituteLinks(data.p[i], substitutionMap, depth)])

\* viewer.js lines 416-447: the substitution map holds every loaded document
\* but the main one.
createExpandedView(main, docs, followLinks) ==
  IF ~followLinks THEN Expanded(main)
  ELSE LET substitutionMap == {docs[i] : i \in DOMAIN docs} \ {main}
       IN IF substitutionMap = {} THEN Expanded(main)
          ELSE substituteLinks(Expanded(main), substitutionMap, 0)

\* viewer.js lines 325-337 on inline contexts: one term per loaded document.
buildMergedContext(docs) == [u \in {docs[i] : i \in DOMAIN docs} |-> u]

\* A page on which nothing has been loaded.
FreshPage ==
  /\ loads = [l \in Loads |-> NoLoad]
  /\ documents = <<>>
  /\ mainDocumentUrl = NoUrl
  /\ mergedContext = EmptyMap
  /\ entityIndex = {}
  /\ currentViewData = NoView

\* No viewer page is open.
NoViewer ==
  /\ linkGraph = [u \in VDocs |-> <<>>]
  /\ offline = {}
  /\ controls = [depth |-> 2, followLinks |-> TRUE]
  /\ FreshPage

MapKeep(m) == m

\* Map.prototype.clear() as used by DocumentLoader.clear().
MapClear(m) == EmptyCache

InitViewer ==
  /\ linkGraph \in [VDocs -> UNION {LinkSeqs(u) : u \in VDocs}]
  /\ \A u \in VDocs : linkGraph[u] \in LinkSeqs(u)
  /\ offline \in SUBSET {DocB}
  /\ controls \in [depth : DepthInputs, followLinks : BOOLEAN]
  /\ FreshPage

\* viewer.js line 155: parseInt(value) || 2.
readDepth(value) == IF value = 0 THEN 2 ELSE value

\* viewer.js lines 148-172: read the controls, clearData(), and send the
\* request for the main document (the cache has just been emptied).
LoadData(l, uri) ==
  /\ loads[l].pc = "idle"
  /\ \A k \in 1..(l - 1) : loads[k].pc # "idle"
  /\ documents' = <<>>
  /\ mainDocumentUrl' = resolvePrefix(uri)
  /\ mergedContext' = EmptyMap
  /\ currentViewData' = NoView
  /\ loadedDocuments' = MapClear(loadedDocuments)
  /\ contextDocuments' = MapClear(contextDocuments)
  /\ entityIndex' = {}
  /\ loads' = [loads EXCEPT ![l] = [pc |-> "main", uri |-> resolvePrefix(uri),
                                    depth |-> readDepth(controls.depth),
                                    followLinks |-> controls.followLinks]]
  /\ UNCHANGED <<linkGraph, offline, controls, calls, requests>>
  /\ UNCHANGED <<rvars, xvars>>

\* viewer.js lines 172-193: the main document arrives, is cached, expanded
\* and stored, and its links are followed.
MainFetched(l) ==
  LET uri == loads[l].uri
      cache1 == MapSet(loadedDocuments, uri, "v1")
      docs1 == IF Has(documents, uri) THEN documents ELSE Append(documents, uri)
      r == IF loads[l].followLinks /\ loads[l].depth > 0
           THEN loadLinkedDocuments(uri, loads[l].depth, docs1, cache1)
           ELSE [docs |-> docs1, cache |-> cache1]
  IN /\ loads[l].pc = "main"
     /\ uri \notin offline
     /\ documents' = r.docs
     /\ loadedDocuments' = r.cache
     /\ loads' = [loads EXCEPT ![l].pc = "loaded"]
     /\ UNCHANGED <<linkGraph, offline, controls, mainDocumentUrl, mergedContext, entityIndex,
                    currentViewData, contextDocuments, calls, requests>>
     /\ UNCHANGED <<rvars, xvars>>

\* viewer.js lines 205-210: the main document cannot be fetched.
MainFailed(l) ==
  /\ loads[l].pc = "main"
  /\ loads[l].uri \in offline
  /\ loads' = [loads EXCEPT ![l] = NoLoad]
  /\ UNCHANGED <<linkGraph, offline, controls, documents, mainDocumentUrl,
                 mergedContext, entityIndex, currentViewData>>
  /\ UNCHANGED lvars
  /\ UNCHANGED <<rvars, xvars>>

\* viewer.js lines 195-203 and 363-414: the merged context and the view.
Finish(l) ==
  /\ loads[l].pc = "loaded"
  /\ mergedContext' = buildMergedContext(documents)
  /\ currentViewData' =
       IF mainDocumentUrl = NoUrl \/ ~Has(documents, mainDocumentUrl)
       THEN currentViewData
       ELSE createExpandedView(mainDocumentUrl, documents, controls.followLinks)
  /\ loads' = [loads EXCEPT ![l] = NoLoad]
  /\ UNCHANGED <<linkGraph, offline, controls, documents, mainDocumentUrl, entityIndex>>
  /\ UNCHANGED lvars
  /\ UNCHANGED <<rvars, xvars>>

\* jsonld-processor.js lines 253-325: every @id found in the expanded form
\* of a cached document is indexed.
IndexAllEntities ==
  /\ entityIndex' = UNION {{u} \cup {linkGraph[u][i] : i \in DOMAIN linkGraph[u]} :
                             u \in DOMAIN loadedDocuments}
  /\ UNCHANGED <<linkGraph, offline, controls, loads, documents, mainDocumentUrl,
                 mergedContext, currentViewData>>
  /\ UNCHANGED lvars
  /\ UNCHANGED <<rvars, xvars>>

NextViewer ==
  \/ \E l \in Loads, uri \in LoadUris : LoadData(l, uri)
  \/ \E l \in Loads : MainFetched(l)
  \/ \E l \in Loads : MainFailed(l)
  \/ \E l \in Loads : Finish(l)
  \/ IndexAllEntities

(***************************************************************************)
(* Manual expansion (jsonld-processor.js).  A JavaScript string is the     *)
(* sequence of its pieces, ":" being a piece of its own, so that prefix    *)
(* splitting and concatenation are computed on the string itself.          *)
(***************************************************************************)
Colon == ":"
\* "http://x/", "http://v/", "http://b/" and "http://example.org/"
NsX == <<"http", Colon, "//x/">>
NsV == <<"http", Colon, "//v/">>
NsB == <<"http", Colon, "//b/">>
NsDefault == <<"http", Colon, "//example.org/">>

JString(s) == [k |-> "str", s |-> s]
JNumber == [k |-> "num"]
JNull == [k |-> "null"]
JArray(items) == [k |-> "arr", items |-> items]
JObject(m) == [k |-> "obj", m |-> m]
NoEntries == [x \in {} |-> JNull]

\* String.prototype.startsWith('http'), includes(':') and startsWith('@').
StartsWithHttp(s) == Len(s) > 0 /\ s[1] = "http"
IncludesColon(s) == \E i \in DOMAIN s : s[i] = Colon
StartsWithAt(s) == Len(s) > 0 /\ s[1] \in {"@id", "@type", "@context", "@base", "@vocab"}

\* The position of the n-th ":" of s at or after position i, Len(s) + 1 if none.
RECURSIVE ColonFrom(_, _)
ColonFrom(s, i) ==
  IF i > Len(s) THEN Len(s) + 1
  ELSE IF s[i] = Colon THEN i
  ELSE ColonFrom(s, i + 1)

\* value.split(':', 2): the pieces before the first colon and between the
\* first and the second colon.
Split2(s) ==
  LET c1 == ColonFrom(s, 1)
      c2 == ColonFrom(s, c1 + 1)
  IN [prefix |-> SubSeq(s, 1, c1 - 1), suffix |-> SubSeq(s, c1 + 1, c2 - 1)]

\* JavaScript truthiness of context[key], and string concatenation with it.
Defined(context, key) ==
  /\ key \in DOMAIN context
  /\ ~(context[key].k = "str" /\ context[key].s = <<>>)
  /\ context[key].k # "null"
AsString(v) == IF v.k = "str" THEN v.s ELSE <<"[object Object]">>

\* context['@base'] || context['@vocab'] (first wins when both are set).
FirstOf(context, k1, k2) ==
  IF Defined(context, k1) THEN context[k1]
  ELSE IF Defined(context, k2) THEN context[k2]
  ELSE JNull

\* jsonld-processor.js lines 200-222.
expandIri(value, context) ==
  IF value.k # "str" \/ value.s = <<>> THEN value
  ELSE IF StartsWithHttp(value.s) THEN value
  ELSE IF IncludesColon(value.s) THEN
    LET parts == Split2(value.s)
    IN IF Defined(context, parts.prefix)
       THEN JString(AsString(context[parts.prefix]) \o parts.suffix)
       ELSE value
  ELSE LET baseOrVocab == FirstOf(context, <<"@base">>, <<"@vocab">>)
       IN IF baseOrVocab.k # "null" THEN JString(AsString(baseOrVocab) \o value.s)
          ELSE value

\* Object.entries order of the keys that occur in the modelled documents.
EntryOrder == <<<<"@context">>, <<"id">>, <<"type">>, <<"t">>, <<"u">>,
                <<"ex", Colon, "k">>>>

\* The definition's own keys.
DefHas(def, key) == def.k = "obj" /\ key \in DOMAIN def.m /\ def.m[key].k = "str"
                      /\ def.m[key].s # <<>>

\* line 139: the definition marks the term as a link.
IsLinkedDef(def) ==
  def.k = "obj" /\ <<"@type">> \in DOMAIN def.m
    /\ def.m[<<"@type">>] = JString(<<"@id">>)

\* obj[key] = value on an object under construction.
Put(m, key, value) ==
  [x \in (DOMAIN m) \cup {key} |-> IF x = key THEN value ELSE m[x]]

\* jsonld-processor.js lines 107-197.
RECURSIVE manuallyExpandObject(_, _)
RECURSIVE expandEntries(_, _, _, _)
RECURSIVE expandLinkedValue(_, _)

expandLinkedValue(value, context) ==
  IF value.k = "str" THEN JObject(<<"@id">> :> expandIri(value, context))
  ELSE IF value.k = "arr" THEN
    JArray([i \in DOMAIN value.items |->
              LET item == value.items[i]
              IN IF item.k = "str"
                 THEN JObject(<<"@id">> :> expandIri(item, context))
                 ELSE IF item.k \in {"obj", "arr"}
                 THEN manuallyExpandObject(item, context)
                 ELSE item])
  ELSE IF value.k = "obj" THEN manuallyExpandObject(value, context)
  ELSE value

\* lines 121-165: one entry of the object after the other.
expandEntries(obj, i, expanded, context) ==
  IF i > Len(EntryOrder) THEN expanded
  ELSE LET key == EntryOrder[i]
       IN IF key \notin DOMAIN obj \/ key = <<"@context">>
          THEN expandEntries(obj, i + 1, expanded, context)
          ELSE
            LET value == obj[key]
                def == IF Defined(context, key) THEN context[key] ELSE JNull
                expandedKey ==
                  IF def.k = "str" THEN def.s
                  ELSE IF def.k = "obj" THEN
                    (IF DefHas(def, <<"@id">>) THEN def.m[<<"@id">>].s ELSE key)
                  ELSE IF def.k # "null" THEN key
                  ELSE IF key = <<"id">> THEN <<"@id">>
                  ELSE IF key = <<"type">> THEN <<"@type">>
                  ELSE IF ~StartsWithAt(key) /\ ~IncludesColon(key) /\ ~StartsWithHttp(key)
                  THEN LET vocab == FirstOf(context, <<"@vocab">>, <<"@base">>)
                       IN IF vocab.k # "null" THEN AsString(vocab) \o key
                          ELSE NsDefault \o key
                  ELSE key
                expandedValue ==
                  IF DefHas(def, <<"@id">>) /\ IsLinkedDef(def)
                  THEN expandLinkedValue(value, context)
                  ELSE manuallyExpandObject(value, context)
            IN expandEntries(obj, i + 1, Put(expanded, expandedKey, expandedValue),
                             context)

manuallyExpandObject(obj, context) ==
  IF obj.k = "arr"
  THEN JArray([i \in DOMAIN obj.items |-> manuallyExpandObject(obj.items[i], context)])
  ELSE IF obj.k = "obj" THEN JObject(expandEntries(obj.m, 1, NoEntries, context))
  ELSE obj

\* jsonld-processor.js lines 94-104 with this.resolvedContext = context.
createManualExpansion(doc, context) ==
  IF doc.k = "null" \/ (doc.k = "str" /\ doc.s = <<>>) THEN JArray(<<>>)
  ELSE LET expandedDoc == manuallyExpandObject(doc, context)
       IN IF expandedDoc.k = "arr" THEN expandedDoc ELSE JArray(<<expandedDoc>>)

\* The contexts given to the processor: term t undefined, an IRI, a prefixed
\* name, or an object with or without @id and @type; prefix ex, @base, @vocab.
IriT == NsX \o <<"t">>
PrefixedName == <<"ex", Colon, "act">>
TypedDef(id, type) == JObject(<<"@id">> :> JString(id) @@ <<"@type">> :> JString(type))
TDefs ==
  {JNull, JString(IriT), JString(PrefixedName),
   TypedDef(IriT, <<"@id">>), TypedDef(IriT, <<"@vocab">>),
   TypedDef(IriT, <<"xsd", Colon, "string">>),
   JObject(<<"@id">> :> JString(IriT)),
   JObject(<<"@type">> :> JString(<<"@id">>))}

MakeContext(t, ex, base, vocab) ==
  LET all == <<"t">> :> t @@ <<"ex">> :> ex @@ <<"@base">> :> base @@ <<"@vocab">> :> vocab
  IN [key \in {x \in DOMAIN all : all[x].k # "null"} |-> all[key]]

Contexts ==
  {MakeContext(t, ex, base, vocab) :
     t \in TDefs, ex \in {JNull, JString(NsX)},
     base \in {JNull, JString(NsB)}, vocab \in {JNull, JString(NsV)}}

\* Values and documents handed to the processor.
Plainv == JString(<<"v">>)
IriInputs ==
  {Plainv, JString(<<"ex", Colon, "a">>), JString(<<"ex", Colon, "a", Colon, "b">>),
   JString(<<"zz", Colon, "a">>), JString(NsX \o <<"y">>), JString(<<>>)}
DocValues ==
  {Plainv, JString(<<"ex", Colon, "a">>), JString(NsX \o <<"y">>), JNumber,
   JArray(<<Plainv, JString(<<"ex", Colon, "a">>)>>),
   JObject(<<"u">> :> Plainv)}
DocKeys == {<<"t">>, <<"u">>, <<"id">>, <<"ex", Colon, "k">>}
ExpandDocs ==
  {JObject(key :> value) : key \in DocKeys, value \in DocValues}
    \cup {JObject(<<"t">> :> value @@ <<"u">> :> Plainv) : value \in DocValues}
    \cup {JNull, JNumber, Plainv, JArray(<<JNumber>>)}

NotRun == [k |-> "none"]

\* A processor that has expanded nothing.
NoProcessor ==
  /\ resolvedContext = NoEntries
  /\ expansion = NotRun
  /\ iri = NotRun

InitProcessor ==
  /\ resolvedContext \in Contexts
  /\ expansion = NotRun
  /\ iri = NotRun

\* JSONLDProcessor.createManualExpansion(doc).
CreateManualExpansion(doc) ==
  /\ expansion' = [k |-> "done", doc |-> doc,
                   out |-> createManualExpansion(doc, resolvedContext)]
  /\ UNCHANGED <<resolvedContext, iri>>
  /\ UNCHANGED <<rvars, lvars, svars, cvars, nvars, jvars, gvars, bvars>>

\* JSONLDProcessor.expandIri(value, this.resolvedContext).
ExpandIri(value) ==
  /\ iri' = [k |-> "done", value |-> value, out |-> expandIri(value, resolvedContext)]
  /\ UNCHANGED <<resolvedContext, expansion>>
  /\ UNCHANGED <<rvars, lvars, svars, cvars, nvars, jvars, gvars, bvars>>

NextProcessor ==
  \/ \E doc \in ExpandDocs : CreateManualExpansion(doc)
  \/ \E value \in IriInputs : ExpandIri(value)

(***************************************************************************)
(* The compacted view (viewer.js createCompactedView) of a main document   *)
(* with an inline @context.  jsonld.expand and jsonld.compact are the      *)
(* JSON-LD algorithms on term -> IRI contexts: expansion replaces a term   *)
(* by its IRI in the active context and wraps a literal as                 *)
(* [{"@value": v}], compaction replaces an IRI by the term the given       *)
(* context defines for it and unwraps the value.                           *)
(***************************************************************************)
IriT2 == NsV \o <<"t">>
IriU == NsX \o <<"u">>
CtxKey == <<"@context">>
ViewTerms == {<<"t">>, <<"u">>}

\* The active context of a @context value: array elements in order, a later
\* definition replacing an earlier one; a URL that cannot be loaded fails.
RECURSIVE activeContext(_)
RECURSIVE activeContextEach(_, _, _)
activeContextEach(items, i, acc) ==
  IF i > Len(items) THEN acc
  ELSE LET c == activeContext(items[i])
       IN IF c.k = "threw" THEN c
          ELSE activeContextEach(items, i + 1, JObject(ObjectAssign(acc.m, c.m)))

activeContext(ctx) ==
  IF ctx.k = "obj" THEN ctx
  ELSE IF ctx.k = "arr" THEN activeContextEach(ctx.items, 1, JObject(NoEntries))
  ELSE IF ctx.k = "str" THEN [k |-> "threw"]
  ELSE JObject(NoEntries)

\* jsonld.expand(doc) (jsonld-processor.js line 25).
jsonldExpand(doc) ==
  LET active == activeContext(IF CtxKey \in DOMAIN doc.m THEN doc.m[CtxKey] ELSE JNull)
  IN IF active.k = "threw" THEN active
     ELSE LET terms == {key \in DOMAIN doc.m : key # CtxKey /\ key \in DOMAIN active.m}
              iris == {active.m[key].s : key \in terms}
              node == [i \in iris |->
                         JArray(<<JObject(<<"@value">> :>
                                    doc.m[CHOOSE key \in terms : active.m[key].s = i])>>)]
          IN IF terms = {} THEN JArray(<<>>) ELSE JArray(<<JObject(node)>>)

\* jsonld.compact(expanded, context) (jsonld-processor.js line 233).
jsonldCompact(expanded, context) ==
  LET active == activeContext(context)
  IN IF active.k = "threw" THEN active
     ELSE IF expanded.items = <<>> THEN JObject(NoEntries)
     ELSE LET node == expanded.items[1].m
              TermsFor(i) == {key \in DOMAIN active.m : active.m[key] = JString(i)}
              Compact(i) == IF TermsFor(i) = {} THEN i ELSE CHOOSE key \in TermsFor(i) : TRUE
              Unwrap(v) == IF v.k = "arr" /\ Len(v.items) = 1 /\ v.items[1].k = "obj"
                              /\ DOMAIN v.items[1].m = {<<"@value">>}
                           THEN v.items[1].m[<<"@value">>] ELSE v
          IN JObject([key \in {Compact(i) : i \in DOMAIN node} |->
                        Unwrap(node[CHOOSE i \in DOMAIN node : Compact(i) = key])])

\* viewer.js lines 454-471: the context handed to safeCompact.  No context
\* document can be fetched here, so a string stays as it is.
FirstContextOnly(context) == context.items[1]

compactionContext(context) ==
  IF context.k = "null" THEN JObject(NoEntries)
  ELSE IF context.k = "arr" /\ Len(context.items) > 0 THEN FirstContextOnly(context)
  ELSE context

\* viewer.js lines 449-486 on a page without linked documents.
createCompactedView(doc) ==
  jsonldCompact(doc.expanded, compactionContext(doc.context))

\* Main documents: an inline @context and values for terms it defines.
InlineContexts ==
  {JObject(<<"t">> :> JString(IriT)), JObject(<<"u">> :> JString(IriU)),
   JObject(<<"t">> :> JString(IriT) @@ <<"u">> :> JString(IriU)),
   JObject(<<"t">> :> JString(IriT2))}
ViewContexts ==
  InlineContexts
    \cup {JArray(s) : s \in UNION {[1..n -> InlineContexts] : n \in 1..MaxViewArr}}
    \cup {JString(NsX \o <<"ctx">>)}
ViewValues == {Plainv, JNumber}
\* The terms a @context value defines (all of them when it cannot be loaded).
TermsOf(c) == IF activeContext(c).k = "threw" THEN ViewTerms
              ELSE DOMAIN activeContext(c).m
ViewBodies == UNION {[keys -> ViewValues] : keys \in (SUBSET ViewTerms) \ {{}}}
MainDocs ==
  {JObject(CtxKey :> d.c @@ d.body) :
     d \in {x \in [c : ViewContexts, body : ViewBodies] : DOMAIN x.body \subseteq TermsOf(x.c)}}

NoMainDoc == [k |-> "none"]

NoCompactedView ==
  /\ mainDoc = NoMainDoc
  /\ compacted = NotRun

\* viewer.js lines 172-187: the main document is expanded and stored.
StoreMain(raw) ==
  LET expandedData == jsonldExpand(raw)
  IN /\ mainDoc = NoMainDoc
     /\ mainDoc' = IF expandedData.k = "threw" THEN [k |-> "failed", raw |-> raw]
                   ELSE [k |-> "stored", raw |-> raw, expanded |-> expandedData,
                         context |-> raw.m[CtxKey]]
     /\ UNCHANGED compacted
     /\ UNCHANGED <<rvars, lvars, svars, evars, nvars, jvars, gvars, bvars>>

\* viewer.js lines 386 and 449-486: the compacted view is produced.
CreateCompactedView ==
  /\ mainDoc.k = "stored"
  /\ compacted = NotRun
  /\ compacted' = [k |-> "done", out |-> createCompactedView(mainDoc)]
  /\ UNCHANGED mainDoc
  /\ UNCHANGED <<rvars, lvars, svars, evars, nvars, jvars, gvars, bvars>>

NextView ==
  \/ \E raw \in MainDocs : StoreMain(raw)
  \/ CreateCompactedView

(***************************************************************************)
(* Link-value normalization (ContextManager.normalize_link_values, as      *)
(* LINK_NORMALIZATION.md describes it).  A string is the sequence of its   *)
(* pieces: single characters and the scheme openings "http://" and         *)
(* "Http://" (the latter a mixed-case spelling of the former).             *)
(***************************************************************************)
Pieces == {"A", "a", "_", "-", Colon, "http://", "Http://"}
NormStrings == UNION {[1..n -> Pieces] : n \in 0..MaxStrLen}

\* str.lower() and str.replace('_', '-') piece by piece.
Lower(c) == IF c = "A" THEN "a" ELSE IF c = "Http://" THEN "http://" ELSE c
SwapSeparators(c) == IF c = "_" THEN "-" ELSE IF c = "-" THEN "_" ELSE c
Hyphenate(c) == IF c = "_" THEN "-" ELSE c

\* A full URI: the value starts with one of the schemes.
IsFullUri(s) == Len(s) > 0 /\ s[1] = "http://"

\* The text before the first ':' of the value: whole pieces, then the
\* letters of a scheme opening.
HasColon(c) == c \in {Colon, "http://", "Http://"}
FirstColon(s) == CHOOSE i \in DOMAIN s : HasColon(s[i]) /\ \A j \in 1..(i - 1) : ~HasColon(s[j])
PrefixPieces(s) ==
  LET i == FirstColon(s)
  IN SubSeq(s, 1, i - 1) \o (IF s[i] = Colon THEN <<>> ELSE <<s[i]>>)
IsUpper(c) == c = "A"
IsLowerOrMixed(c) == c \in {"a", "http://", "Http://"}

\* A prefixed name whose prefix is entirely upper-case (str.isupper()).
HasUpperPrefix(s) ==
  /\ \E i \in DOMAIN s : HasColon(s[i])
  /\ \E i \in DOMAIN PrefixPieces(s) : IsUpper(PrefixPieces(s)[i])
  /\ \A i \in DOMAIN PrefixPieces(s) : ~IsLowerOrMixed(PrefixPieces(s)[i])

\* The normalization of one linked string value.
normalize(s) ==
  IF IsFullUri(s) \/ HasUpperPrefix(s) THEN s
  ELSE [i \in DOMAIN s |-> Hyphenate(Lower(s[i]))]

\* The terms the context marks as linked.
AnyDefinition(context, key) == key \in DOMAIN context

LinkedField(context, key) ==
  /\ key \in DOMAIN context
  /\ context[key].k = "obj"
  /\ <<"@type">> \in DOMAIN context[key].m
  /\ context[key].m[<<"@type">>] \in {JString(<<"@id">>), JString(<<"@vocab">>)}

\* Strings, arrays of strings and nested structures of a linked field.
RECURSIVE normalize_value(_, _)
RECURSIVE normalize_link_values(_, _)
normalize_value(value, context) ==
  IF value.k = "str" THEN JString(normalize(value.s))
  ELSE IF value.k = "arr"
  THEN JArray([i \in DOMAIN value.items |-> normalize_value(value.items[i], context)])
  ELSE IF value.k = "obj" THEN normalize_link_values(value, context)
  ELSE value

normalize_link_values(data, context) ==
  JObject([key \in DOMAIN data.m |->
             IF LinkedField(context, key) THEN normalize_value(data.m[key], context)
             ELSE data.m[key]])

\* Contexts of the ContextManager and the data it normalizes.
NormDefs ==
  {JNull, JString(IriT), TypedDef(IriT, <<"@id">>), TypedDef(IriT, <<"@vocab">>),
   TypedDef(IriT, <<"xsd", Colon, "string">>)}
NormContexts ==
  {[key \in {x \in {<<"t">>, <<"u">>} : (IF x = <<"t">> THEN t ELSE u).k # "null"} |->
      IF key = <<"t">> THEN t ELSE u] : t \in NormDefs, u \in {JNull, TypedDef(IriU, <<"@id">>)}}
Mixed == JString(<<"A", "_", "a">>)
NormValues ==
  {Mixed, JString(<<"a", "-", "a">>), JString(<<"http://", "A", "_">>),
   JString(<<"A", Colon, "A">>), JString(<<"a", Colon, "A">>), JNumber,
   JArray(<<Mixed, JNumber>>), JObject(<<"u">> :> Mixed)}
NormData == {JObject(<<"t">> :> v @@ <<"u">> :> w) : v \in NormValues, w \in {Mixed, JNumber}}

NoNormalizer ==
  /\ cmContext = NoEntries
  /\ normalized = NotRun

InitNormalizer ==
  /\ cmContext \in NormContexts
  /\ normalized = NotRun

\* One linked string value is normalized.  The function keeps no state, so
\* a behaviour performs one call.
NormalizeValue(s) ==
  /\ normalized = NotRun
  /\ normalized' = [k |-> "value", in |-> s, out |-> normalize(s)]
  /\ UNCHANGED cmContext
  /\ UNCHANGED <<rvars, lvars, svars, evars, cvars, jvars, gvars, bvars>>

\* ContextManager.normalize_link_values(data).
NormalizeLinkValues(data) ==
  /\ normalized = NotRun
  /\ normalized' = [k |-> "data", in |-> data, out |-> normalize_link_values(data, cmContext)]
  /\ UNCHANGED cmContext
  /\ UNCHANGED <<rvars, lvars, svars, evars, cvars, jvars, gvars, bvars>>

NextNormalizer ==
  \/ \E s \in NormStrings : NormalizeValue(s)
  \/ \E data \in NormData : NormalizeLinkValues(data)

(***************************************************************************)
(* The JSON validator (JSONValidator and main of validate_json).  A Python *)
(* string is the sequence of its pieces; a JSON object is the sequence of  *)
(* its key/value pairs in file order (an OrderedDict).                     *)
(***************************************************************************)
Pair(key, value) == [key |-> key, value |-> value]

\* dict operations.
KeysOf(d) == {d[i].key : i \in DOMAIN d}
Get(d, key) == d[CHOOSE i \in DOMAIN d : d[i].key = key].value
SetKey(d, key, value) ==
  IF key \in KeysOf(d)
  THEN [i \in DOMAIN d |-> IF d[i].key = key THEN Pair(key, value) ELSE d[i]]
  ELSE Append(d, Pair(key, value))

REQUIRED_KEYS == <<"id", "validation-key", "ui-label", "description", "@context", "type">>
ImportedDefaults ==
  [key \in {REQUIRED_KEYS[i] : i \in DOMAIN REQUIRED_KEYS} |->
     IF key = "type" THEN JArray(<<>>)
     ELSE IF key = "@context" THEN JString(<<"_context_">>)
     ELSE JString(<<>>)]

\* The files of the directory: folder/stem.json.
Folders == {"F", "G"}
Stems == {<<"a">>, <<"b">>}
Paths == [folder : Folders, stem : Stems]
Fa == [folder |-> "F", stem |-> <<"a">>]
Fb == [folder |-> "F", stem |-> <<"b">>]
Ga == [folder |-> "G", stem |-> <<"a">>]

\* The text of a file.  An object's text is its pairs, whether it is laid
\* out as json.dumps(indent=4) lays it out, and whether it ends with the
\* newline.
Absent == [k |-> "absent"]
EmptyFile == [k |-> "empty"]
InvalidJson == [k |-> "invalid"]
ListRoot == [k |-> "list"]
ObjText(data, canonical, nl) == [k |-> "obj", data |-> data, canonical |-> canonical, nl |-> nl]

strip(content) == IF content.k = "obj" THEN [content EXCEPT !.nl = FALSE] ELSE content
dumps(data) == ObjText(data, TRUE, FALSE)
WithNewline(text) == [text EXCEPT !.nl = TRUE]

\* f"wcrp:{parent_folder}"
WcrpType(parent_folder) == <<"wcrp", Colon, parent_folder>>

\* Python's order of the strings that occur as other keys, and sorted().
StringOrder == <<"alpha", "zeta">>
Rank(key) == CHOOSE i \in DOMAIN StringOrder : StringOrder[i] = key

RECURSIVE descending(_)
descending(keys) ==
  IF keys = {} THEN <<>>
  ELSE LET last == CHOOSE x \in keys : \A y \in keys : Rank(y) <= Rank(x)
       IN <<last>> \o descending(keys \ {last})

RECURSIVE sorted(_)
sorted(keys) ==
  IF keys = {} THEN <<>>
  ELSE LET first == CHOOSE x \in keys : \A y \in keys : Rank(x) <= Rank(y)
       IN <<first>> \o sorted(keys \ {first})

priority_keys == <<"id", "validation-key", "ui-label", "description">>
remaining_keys(data) ==
  sorted({key \in KeysOf(data) :
            /\ \A i \in DOMAIN priority_keys : priority_keys[i] # key
            /\ key \notin {"@context", "type"}})

RECURSIVE Pick(_, _, _)
Pick(keys, i, data) ==
  IF i > Len(keys) THEN <<>>
  ELSE (IF keys[i] \in KeysOf(data) THEN <<Pair(keys[i], Get(data, keys[i]))>> ELSE <<>>)
       \o Pick(keys, i + 1, data)

sort_json_keys(data) ==
  Pick(priority_keys, 1, data) \o Pick(remaining_keys(data), 1, data)
    \o Pick(<<"@context", "type">>, 1, data)

\* for key in REQUIRED_KEYS: if key not in data: data[key] = DEFAULT_VALUES[key]
RECURSIVE AddRequired(_, _, _)
AddRequired(data, defaults, i) ==
  IF i > Len(REQUIRED_KEYS) THEN data
  ELSE AddRequired(IF REQUIRED_KEYS[i] \in KeysOf(data) THEN data
                   ELSE Append(data, Pair(REQUIRED_KEYS[i], defaults[REQUIRED_KEYS[i]])),
                   defaults, i + 1)

NonEmpty(items, x) == items # <<>>
Contains(items, x) == \E i \in DOMAIN items : items[i] = x

Outcome(modified, message, files, defaults, written) ==
  [modified |-> modified, message |-> message, disk |-> files,
   defaults |-> defaults, written |-> written]

\* if modified: ... the file is written, unless dry_run.
WritesAlways(modified, dry_run) == modified
Writes(modified, dry_run) == modified /\ ~dry_run

\* validate_and_fix_json(file_path) on the files and DEFAULT_VALUES it finds:
\* the pair it returns, the files and DEFAULT_VALUES it leaves, and what it
\* appended to modified_files.
validate_and_fix_json(file_path, files, defaults, dry_run) ==
  LET content == strip(files[file_path])
      Failed(message) == Outcome(FALSE, message, files, defaults, <<>>)
  IN
  IF content.k = "empty" THEN Failed("Empty file")
  ELSE IF content.k = "invalid" THEN Failed("Invalid JSON")
  ELSE IF content.k # "obj" THEN Failed("JSON root is not an object")
  ELSE
  LET current_filename == file_path.stem
      \* required keys
      withKeys == AddRequired(content.data, defaults, 1)
      added == KeysOf(withKeys) # KeysOf(content.data)
      typeIsDefault == "type" \notin KeysOf(content.data)
      \* id consistency
      existing_id == Get(withKeys, "id").s
      needs_file_rename == existing_id # <<>> /\ existing_id # current_filename
      correct_id == IF needs_file_rename THEN existing_id ELSE current_filename
      idFixed == Get(withKeys, "id") # JString(correct_id)
      withId == IF idFixed THEN SetKey(withKeys, "id", JString(correct_id)) ELSE withKeys
      \* type from the parent folder
      parent_folder == file_path.folder
      checksType == parent_folder # "" /\ parent_folder # "."
      expected_type_part == WcrpType(parent_folder)
      foundType == Get(withId, "type")
      wrapped == checksType /\ foundType.k # "arr"
      current_type ==
        IF foundType.k = "arr" THEN foundType.items
        ELSE IF foundType.s # <<>> THEN <<foundType.s>> ELSE <<>>
      appended == checksType /\ ~Contains(current_type, expected_type_part)
      final_type == IF appended THEN Append(current_type, expected_type_part) ELSE current_type
      withType == IF checksType THEN SetKey(withId, "type", JArray(final_type)) ELSE withId
      \* the list appended to is DEFAULT_VALUES['type'] itself
      defaultsAfter ==
        IF appended /\ typeIsDefault THEN [defaults EXCEPT !["type"] = JArray(final_type)]
        ELSE defaults
      \* sorting and comparison with the text read
      sorted_data == sort_json_keys(withType)
      what_we_will_write == WithNewline(dumps(sorted_data))
      differs == content # what_we_will_write
      modifiedBefore == added \/ idFixed \/ wrapped \/ appended \/ differs
      \* renaming
      renames == needs_file_rename /\ ~dry_run
      new_file_path == [folder |-> file_path.folder, stem |-> correct_id]
      blocked == renames /\ files[new_file_path].k # "absent" /\ new_file_path # file_path
      final_file_path == IF renames THEN new_file_path ELSE file_path
      renamed == IF renames
                 THEN [files EXCEPT ![file_path] = Absent, ![new_file_path] = files[file_path]]
                 ELSE files
      modified == modifiedBefore \/ renames
      writes == Writes(modified, dry_run)
      message ==
        IF modified /\ needs_file_rename
        THEN (IF dry_run THEN "Fixed | Would rename" ELSE "Fixed | Renamed")
        ELSE IF modified THEN "Fixed"
        ELSE IF needs_file_rename THEN (IF dry_run THEN "Would rename" ELSE "Renamed")
        ELSE "OK"
  IN
  IF blocked
  THEN Outcome(FALSE, "Cannot rename - file already exists", files, defaultsAfter, <<>>)
  ELSE Outcome(modified, message,
               IF writes THEN [renamed EXCEPT ![final_file_path] = what_we_will_write]
               ELSE renamed,
               defaultsAfter,
               IF writes THEN <<final_file_path>> ELSE <<>>)

\* The files a directory may hold when the validator starts.
Missing == [k |-> "missing"]
IdValues == {JString(<<>>), JString(<<"a">>), JString(<<"b">>)}
TypeValues ==
  {JString(<<>>), JString(<<"x">>), JArray(<<>>), JArray(<<WcrpType("F")>>), JArray(<< <<"x">> >>)}
Opt(key, value) == IF value = Missing THEN <<>> ELSE <<Pair(key, value)>>
\* every required key, in the order sort_json_keys gives
Complete(id, type) ==
  <<Pair("id", id), Pair("validation-key", JString(<<>>)), Pair("ui-label", JString(<<>>)),
    Pair("description", JString(<<>>)), Pair("@context", JString(<<"_context_">>)),
    Pair("type", type)>>
\* other keys first, required keys missing
Partial(id, type) ==
  <<Pair("zeta", JString(<<"x">>))>> \o Opt("type", type)
    \o <<Pair("alpha", JString(<<"x">>))>> \o Opt("id", id)
FaFiles ==
  {Absent, EmptyFile, InvalidJson, ListRoot}
    \cup {ObjText(Complete(id, type), TRUE, TRUE) : id \in IdValues, type \in TypeValues}
    \cup {ObjText(Partial(id, type), FALSE, FALSE) :
            id \in IdValues \cup {Missing}, type \in {Missing, JArray(<<>>)}}
FbFiles ==
  {Absent, InvalidJson, ObjText(Complete(JString(<<"b">>), JArray(<<WcrpType("F")>>)), TRUE, TRUE),
   ObjText(Partial(Missing, Missing), FALSE, TRUE)}
GaFiles ==
  {Absent, ObjText(Partial(Missing, Missing), FALSE, TRUE),
   ObjText(Complete(JString(<<"b">>), JArray(<<>>)), TRUE, TRUE)}
Disks ==
  {[p \in Paths |-> IF p = Fa THEN fa ELSE IF p = Fb THEN fb ELSE IF p = Ga THEN ga ELSE Absent] :
     fa \in FaFiles, fb \in FbFiles, ga \in GaFiles}

NoExit == -1
NoGit == [staged |-> {}, commits |-> 0]
NoStats == [processed |-> 0, modified |-> 0, errors |-> 0]
NoResults == [p \in {} |-> Missing]
NotStarted ==
  [pc |-> "idle", dry_run |-> FALSE, auto_commit |-> FALSE, viaMain |-> FALSE,
   pending |-> {}, stats |-> NoStats, modified_files |-> <<>>, results |-> NoResults,
   returned |-> "none", sorted |-> NotRun, second |-> NotRun]

NoValidator ==
  /\ disk = [p \in Paths |-> Absent]
  /\ DEFAULT_VALUES = ImportedDefaults
  /\ validator = NotStarted
  /\ git = NoGit
  /\ exitCode = NoExit

InitValidator ==
  /\ disk \in Disks
  /\ DEFAULT_VALUES = ImportedDefaults
  /\ validator = NotStarted
  /\ git = NoGit
  /\ exitCode = NoExit

find_json_files == {p \in Paths : disk[p].k # "absent"}

\* JSONValidator(...).run() up to the submission of the files; with no file
\* it returns True at once.
Begin(dry_run, auto_commit, viaMain) ==
  LET json_files == find_json_files
      created == [NotStarted EXCEPT !.dry_run = dry_run, !.auto_commit = auto_commit,
                                    !.viaMain = viaMain]
  IN IF json_files = {}
     THEN /\ validator' = [created EXCEPT !.pc = "returned", !.returned = "True"]
          /\ exitCode' = IF viaMain THEN 0 ELSE exitCode
     ELSE /\ validator' = [created EXCEPT !.pc = "running", !.pending = json_files]
          /\ UNCHANGED exitCode

\* main(): --auto-commit with --dry-run is refused with exit code 1.
Main(dry_run, auto_commit) ==
  /\ validator.pc = "idle"
  /\ IF auto_commit /\ dry_run
     THEN /\ exitCode' = 1
          /\ validator' = [validator EXCEPT !.pc = "refused"]
     ELSE Begin(dry_run, auto_commit, TRUE)
  /\ UNCHANGED <<disk, DEFAULT_VALUES, git>>
  /\ UNCHANGED <<rvars, lvars, svars, evars, cvars, nvars, gvars, bvars>>

\* A caller constructs the JSONValidator and calls run() itself.
Run(dry_run, auto_commit) ==
  /\ validator.pc = "idle"
  /\ Begin(dry_run, auto_commit, FALSE)
  /\ UNCHANGED <<disk, DEFAULT_VALUES, git>>
  /\ UNCHANGED <<rvars, lvars, svars, evars, cvars, nvars, gvars, bvars>>

\* process_file(file_path) in a worker of the pool.
ProcessFile(file_path) ==
  /\ validator.pc = "running"
  /\ file_path \in validator.pending
  /\ LET o == validate_and_fix_json(file_path, disk, DEFAULT_VALUES, validator.dry_run)
     IN /\ disk' = o.disk
        /\ DEFAULT_VALUES' = o.defaults
        /\ validator' =
             [validator EXCEPT
                !.pending = @ \ {file_path},
                !.stats = [@ EXCEPT !.processed = @ + 1,
                                    !.modified = IF o.modified THEN @ + 1 ELSE @],
                !.modified_files = @ \o o.written,
                !.results = (file_path :> [modified |-> o.modified, message |-> o.message,
                                            success |-> TRUE]) @@ @]
  /\ UNCHANGED <<git, exitCode>>
  /\ UNCHANGED <<rvars, lvars, svars, evars, cvars, nvars, gvars, bvars>>

CommitOutcomes == {"no-coauthors", "committed", "commit-failed"}

\* The rest of run(): report_results, the commit, the value returned, and
\* main's exit code.
RunEnd(commit) ==
  /\ validator.pc = "running"
  /\ validator.pending = {}
  /\ LET commits == validator.auto_commit /\ validator.modified_files # <<>>
                      /\ ~validator.dry_run
         files == {validator.modified_files[i] : i \in DOMAIN validator.modified_files}
         success == validator.stats.errors = 0
     IN /\ git' = IF commits /\ commit # "no-coauthors"
                  THEN [staged |-> git.staged \cup files,
                        commits |-> IF commit = "committed" THEN git.commits + 1
                                    ELSE git.commits]
                  ELSE git
        /\ validator' = [validator EXCEPT !.pc = "returned",
                                          !.returned = IF success THEN "True" ELSE "False"]
        /\ exitCode' = IF validator.viaMain THEN (IF success THEN 0 ELSE 1) ELSE exitCode
  /\ UNCHANGED <<disk, DEFAULT_VALUES>>
  /\ UNCHANGED <<rvars, lvars, svars, evars, cvars, nvars, gvars, bvars>>

\* A caller sorts the keys of an object it has loaded from a file.
SortJsonKeys(file_path) ==
  /\ validator.pc = "idle"
  /\ disk[file_path].k = "obj"
  /\ validator' = [validator EXCEPT
                     !.pc = "sorted",
                     !.sorted = [k |-> "done", in |-> disk[file_path].data,
                                 out |-> sort_json_keys(disk[file_path].data)]]
  /\ UNCHANGED <<disk, DEFAULT_VALUES, git, exitCode>>
  /\ UNCHANGED <<rvars, lvars, svars, evars, cvars, nvars, gvars, bvars>>

\* After run() has returned, the caller calls validate_and_fix_json on one
\* of the files again, on the same JSONValidator.
ValidateAgain(file_path) ==
  /\ validator.pc = "returned"
  /\ ~validator.viaMain
  /\ disk[file_path].k # "absent"
  /\ LET o == validate_and_fix_json(file_path, disk, DEFAULT_VALUES, validator.dry_run)
     IN /\ disk' = o.disk
        /\ DEFAULT_VALUES' = o.defaults
        /\ validator' =
             [validator EXCEPT
                !.pc = "validated-again",
                !.modified_files = @ \o o.written,
                !.second = [k |-> "done", file_path |-> file_path,
                            modified |-> o.modified, message |-> o.message]]
  /\ UNCHANGED <<git, exitCode>>
  /\ UNCHANGED <<rvars, lvars, svars, evars, cvars, nvars, gvars, bvars>>

NextValidator ==
  \/ \E dry_run \in BOOLEAN, auto_commit \in BOOLEAN : Main(dry_run, auto_commit)
  \/ \E dry_run \in BOOLEAN, auto_commit \in BOOLEAN : Run(dry_run, auto_commit)
  \/ \E file_path \in Paths : ProcessFile(file_path)
  \/ \E commit \in CommitOutcomes : RunEnd(commit)
  \/ \E file_path \in Paths : SortJsonKeys(file_path)
  \/ \E file_path \in Paths : ValidateAgain(file_path)

(***************************************************************************)
(* ld2graph: the shell script that resolves the _context_ file of a        *)
(* directory and writes graph.jsonld.  The directory is D, its parent P.   *)
(***************************************************************************)
GPath(dir, name) == [dir |-> dir, name |-> name]
dirname(dir) == IF dir = "D" THEN "P" ELSE "R"
context_file == GPath("D", "_context_")

\* "$base_dir/$ref" and the directory of the file it names.
IsRelative(ref) == Len(ref) > 0 /\ ref[1] = "../"
IsUrl(ref) == Len(ref) > 0 /\ ref[1] = "http"
resolved_path(base_dir, ref) ==
  IF IsRelative(ref) THEN GPath(dirname(base_dir), ref[Len(ref)])
  ELSE GPath(base_dir, ref[Len(ref)])

\* jq's a * b merges two objects recursively.
RECURSIVE jqMultiply(_, _)
jqMultiply(a, b) ==
  JObject([key \in DOMAIN a.m \cup DOMAIN b.m |->
             IF key \notin DOMAIN b.m THEN a.m[key]
             ELSE IF key \in DOMAIN a.m /\ a.m[key].k = "obj" /\ b.m[key].k = "obj"
             THEN jqMultiply(a.m[key], b.m[key])
             ELSE b.m[key]])

EmptyObject == JObject(NoEntries)
NoFile == [k |-> "absent"]
CtxFile(context) == [k |-> "file", context |-> context]

\* resolve_context "$ctx_file" "$base_dir" with the files of the two
\* directories; the recursion follows references to files only.
RECURSIVE resolve_context(_, _, _)
RECURSIVE resolve_items(_, _, _, _, _)
resolve_context(ctx_file, base_dir, files) ==
  IF ctx_file \notin DOMAIN files \/ files[ctx_file].k = "absent" THEN EmptyObject
  ELSE LET found == files[ctx_file].context
           context_array == IF found.k = "arr" THEN found.items ELSE <<found>>
       IN IF found.k = "null" THEN EmptyObject
          ELSE resolve_items(context_array, 1, EmptyObject, base_dir, files)

resolve_items(context_array, i, merged_context, base_dir, files) ==
  IF i > Len(context_array) THEN merged_context
  ELSE LET item == context_array[i]
           path == resolved_path(base_dir, item.s)
           merged ==
             IF item.k = "str"
             THEN IF ~IsRelative(item.s) /\ IsUrl(item.s) THEN merged_context
                  ELSE jqMultiply(merged_context, resolve_context(path, path.dir, files))
             ELSE IF item.k = "obj" THEN jqMultiply(merged_context, item)
             ELSE merged_context
       IN resolve_items(context_array, i + 1, merged, base_dir, files)

\* The fallback when the resolved context is "{}": the original @context,
\* the objects of an array merged.
RECURSIVE reduceObjects(_, _, _)
reduceObjects(items, i, acc) ==
  IF i > Len(items) THEN acc
  ELSE reduceObjects(items, i + 1,
                     IF items[i].k = "obj" THEN jqMultiply(acc, items[i]) ELSE acc)

final_context(resolved, files) ==
  IF resolved # EmptyObject THEN resolved
  ELSE LET original == files[context_file].context
       IN IF original.k = "arr" THEN reduceObjects(original.items, 1, EmptyObject)
          ELSE original

\* The context files ld2graph may find.  References form no cycle.
GTermDefs == {JString(IriT), TypedDef(IriT, <<"@id">>), JObject(<<"@id">> :> JString(IriU))}
GObjects == {JObject(<<"t">> :> def) : def \in GTermDefs} \cup {JObject(<<"u">> :> JString(IriU))}
RefC1 == JString(<<"c1">>)
RefC2 == JString(<<"../", "c2">>)
RefUrl == JString(<<"http", Colon, "//x/c">>)
MainItems == GObjects \cup {RefC1, RefC2, RefUrl}
MainContexts ==
  GObjects \cup {JArray(s) : s \in UNION {[1..n -> MainItems] : n \in 1..MaxCtxRefs}}
C1Files ==
  {NoFile, CtxFile(JNull)} \cup {CtxFile(o) : o \in GObjects}
    \cup {CtxFile(JArray(<<RefC2, o>>)) : o \in GObjects}
C2Files == {NoFile} \cup {CtxFile(o) : o \in GObjects}
GFiles ==
  {(GPath("D", "_context_") :> CtxFile(main)) @@ (GPath("D", "c1") :> c1)
     @@ (GPath("P", "c2") :> c2) :
     main \in MainContexts, c1 \in C1Files, c2 \in C2Files}
\* The data files of the directory: their names in glob order, and whether
\* jq can parse them.
DataFiles == [{"x.json", "y.json"} -> {"absent", "valid", "invalid"}]
GlobOrder == <<"x.json", "y.json">>

NoGraph == [k |-> "none"]
NoLd2graph ==
  ld2graph = [files |-> (context_file :> NoFile), data |-> [n \in {} |-> "absent"],
              pc |-> "idle", resolved |-> NoGraph, output |-> NoGraph]

InitLd2graph ==
  \E files \in GFiles, data \in DataFiles :
    ld2graph = [files |-> files, data |-> data, pc |-> "start",
                resolved |-> NoGraph, output |-> NoGraph]

\* final_context=$(resolve_context "$context_file" ...)
ResolveMainContext ==
  /\ ld2graph.pc = "start"
  /\ ld2graph' = [ld2graph EXCEPT
                    !.pc = "resolved",
                    !.resolved = resolve_context(context_file, context_file.dir, ld2graph.files)]
  /\ UNCHANGED <<rvars, lvars, svars, evars, cvars, nvars, jvars, bvars>>

\* The fallback, and graph.jsonld written with the data files jq can parse.
RECURSIVE graphOf(_, _)
graphOf(data, i) ==
  IF i > Len(GlobOrder) THEN <<>>
  ELSE (IF data[GlobOrder[i]] = "valid" THEN <<GlobOrder[i]>> ELSE <<>>) \o graphOf(data, i + 1)

WriteGraph ==
  /\ ld2graph.pc = "resolved"
  /\ ld2graph' = [ld2graph EXCEPT
                    !.pc = "written",
                    !.output = [k |-> "graph",
                                context |-> final_context(ld2graph.resolved, ld2graph.files),
                                graph |-> graphOf(ld2graph.data, 1)]]
  /\ UNCHANGED <<rvars, lvars, svars, evars, cvars, nvars, jvars, bvars>>

NextLd2graph ==
  \/ ResolveMainContext
  \/ WriteGraph

(***************************************************************************)
(* DocumentLoader.buildResolvedContext and calls of mergeContext on their  *)
(* own.  The loaded documents reference no document that is not loaded, so *)
(* the loadedDocuments Map does not grow while it is iterated.             *)
(***************************************************************************)
RangeOf(s) == {s[i] : i \in DOMAIN s}

RECURSIVE assignLoaded(_, _, _)
assignLoaded(resolved, loaded, i) ==
  IF i > Len(loaded) THEN resolved
  ELSE LET doc == Served(loaded[i])
           docContexts ==
             IF doc.k = "doc" /\ Truthy(doc.ctx)
             THEN collectAndLoadContexts(doc.ctx, loaded[i],
                                         [St0 EXCEPT !.cache = RangeOf(loaded)], MaxDepth).ctx
             ELSE EmptyMap
       IN assignLoaded(ObjectAssign(resolved, docContexts), loaded, i + 1)

\* buildResolvedContext(data, baseUrl) with the given loadedDocuments.
buildResolvedContext(data, baseUrl, loaded) ==
  LET mainContexts ==
        IF Truthy(data)
        THEN collectAndLoadContexts(data, baseUrl,
                                    [St0 EXCEPT !.cache = RangeOf(loaded)], MaxDepth).ctx
        ELSE EmptyMap
      assigned == ObjectAssign(EmptyMap, mainContexts)
      withBase ==
        IF data.k = "obj" /\ "@base" \in DOMAIN data.defs
        THEN ObjectAssign(assigned, [x \in {"@base"} |-> data.defs[x]])
        ELSE assigned
  IN assignLoaded(withBase, loaded, 1)

\* Context objects with and without @base.
BaseValues == {Plain("b1"), Plain("b2")}
BaseMaps ==
  {EmptyMap, "t" :> Plain("a")}
    \cup {"@base" :> b : b \in BaseValues}
    \cup {("@base" :> b) @@ ("t" :> Plain("a")) : b \in BaseValues}
BaseObjs == {Obj(m) : m \in BaseMaps}
BaseSources ==
  {Null, Num} \cup BaseObjs \cup {Arr(s) : s \in UNION {[1..n -> BaseObjs] : n \in 1..MaxMerged}}
UrlA == Abs("d2", "A")
UrlB == Abs("d2", "B")
LoadedOrders == {<<>>, <<UrlA>>, <<UrlB>>, <<UrlA, UrlB>>, <<UrlB, UrlA>>}
BaseWorlds ==
  {[n \in Names |-> IF n = "A" THEN a ELSE b] :
     a \in {NoCtx} \cup {Doc(o) : o \in BaseObjs},
     b \in {Doc(Obj("@base" :> Plain("b2"))), Doc(Arr(<<Obj("t" :> Plain("a")), Str(UrlA)>>))}}

NoContextCall == contextCall = NotRun

\* mergeContext(target, source) called once.
MergeContext(target, source) ==
  /\ contextCall = NotRun
  /\ contextCall' = [k |-> "merge", target |-> target, source |-> source,
                     out |-> mergeContext(target, source)]
  /\ UNCHANGED <<rvars, lvars, svars, evars, cvars, nvars, jvars, gvars>>

\* buildResolvedContext(data, baseUrl) called once.
BuildResolvedContext(context, loaded) ==
  /\ contextCall = NotRun
  /\ contextCall' = [k |-> "build", context |-> context, loaded |-> loaded,
                     out |-> buildResolvedContext(context, MainUrl, loaded)]
  /\ UNCHANGED <<rvars, lvars, svars, evars, cvars, nvars, jvars, gvars>>

NextContextCall ==
  \/ \E target \in BaseMaps, source \in BaseSources : MergeContext(target, source)
  \/ \E context \in BaseSources, loaded \in LoadedOrders : BuildResolvedContext(context, loaded)

(***************************************************************************)
(* Resolution runs: the inputs are drawn in Init, one action per resolver. *)
(***************************************************************************)
NoResult == Ret("none", EmptyMap, St0)

Init ==
  /\ world \in [Names -> DocKindsA \cup DocKindsB]
  /\ world["A"] \in DocKindsA
  /\ world["B"] \in DocKindsB
  /\ input \in Inputs
  /\ phase = "ready"
  /\ resolver = "none"
  /\ result = NoResult
  /\ InitLoader
  /\ NoViewer
  /\ NoProcessor
  /\ NoCompactedView
  /\ NoNormalizer
  /\ NoValidator
  /\ NoLd2graph
  /\ NoContextCall

CollectAndLoadContexts ==
  /\ phase = "ready"
  /\ phase' = "done"
  /\ resolver' = "collect"
  /\ result' = collectAndLoadContexts(input, MainUrl, St0, MaxDepth)
  /\ UNCHANGED <<world, input>>
  /\ UNCHANGED <<lvars, ovars>>

\* CMIPLDViewer.resolveContext applied to the drawn input.
ResolveContext ==
  /\ phase = "ready"
  /\ phase' = "done"
  /\ resolver' = "viewer"
  /\ result' = resolveContext(input, MainUrl, St0, MaxDepth)
  /\ UNCHANGED <<world, input>>
  /\ UNCHANGED <<lvars, ovars>>

\* The notebook's get_context on a document whose @context is the input:
\* combine(fetch_resolved_context(uri)).
NotebookResult ==
  LET r == IF PyTruthy(input) THEN resolve_contexts(input, MainUrl, MaxDepth)
           ELSE PyRet("ok", input)
  IN IF r.status # "ok" THEN Ret(r.status, EmptyMap, St0)
     ELSE LET c == combine(r.val)
          IN IF c.k = "obj" THEN Ret("ok", c.defs, St0)
             ELSE Ret("none-value", EmptyMap, St0)

NotebookResolve ==
  /\ phase = "ready"
  /\ phase' = "done"
  /\ resolver' = "notebook"
  /\ result' = NotebookResult
  /\ UNCHANGED <<world, input>>
  /\ UNCHANGED <<lvars, ovars>>

Next ==
  \/ CollectAndLoadContexts
  \/ ResolveContext
  \/ NotebookResolve

Spec == Init /\ [][Next]_vars

\* The fetcher on its own: no resolution run is in progress.
InitFetch ==
  /\ world = [n \in Names |-> Fail]
  /\ input = Null
  /\ phase = "ready"
  /\ resolver = "none"
  /\ result = NoResult
  /\ InitLoader
  /\ NoViewer
  /\ NoProcessor
  /\ NoCompactedView
  /\ NoNormalizer
  /\ NoValidator
  /\ NoLd2graph
  /\ NoContextCall

SpecLoader == InitFetch /\ [][NextLoader]_vars

\* A viewer page: no stand-alone resolution run, the loader is the page's.
NoRun ==
  /\ world = [n \in Names |-> Fail]
  /\ input = Null
  /\ phase = "ready"
  /\ resolver = "none"
  /\ result = NoResult

InitPage ==
  /\ NoRun
  /\ InitLoader
  /\ InitViewer
  /\ NoProcessor
  /\ NoCompactedView
  /\ NoNormalizer
  /\ NoValidator
  /\ NoLd2graph
  /\ NoContextCall

SpecViewer == InitPage /\ [][NextViewer]_vars

\* A processor on its own.
InitExpand ==
  /\ NoRun
  /\ InitLoader
  /\ NoViewer
  /\ InitProcessor
  /\ NoCompactedView
  /\ NoNormalizer
  /\ NoValidator
  /\ NoLd2graph
  /\ NoContextCall

SpecExpand == InitExpand /\ [][NextProcessor]_vars

\* A page showing the compacted view of one main document.
InitView ==
  /\ NoRun
  /\ InitLoader
  /\ NoViewer
  /\ NoProcessor
  /\ NoCompactedView
  /\ NoNormalizer
  /\ NoValidator
  /\ NoLd2graph
  /\ NoContextCall

SpecView == InitView /\ [][NextView]_vars

\* A ContextManager on its own.
InitNormalize ==
  /\ NoRun
  /\ InitLoader
  /\ NoViewer
  /\ NoProcessor
  /\ NoCompactedView
  /\ InitNormalizer
  /\ NoValidator
  /\ NoLd2graph
  /\ NoContextCall

SpecNormalize == InitNormalize /\ [][NextNormalizer]_vars

\* The validator on a directory.
InitValidate ==
  /\ NoRun
  /\ InitLoader
  /\ NoViewer
  /\ NoProcessor
  /\ NoCompactedView
  /\ NoNormalizer
  /\ InitValidator
  /\ NoLd2graph
  /\ NoContextCall

SpecValidator == InitValidate /\ [][NextValidator]_vars

\* A run of ld2graph on a directory.
InitGraph ==
  /\ NoRun
  /\ InitLoader
  /\ NoViewer
  /\ NoProcessor
  /\ NoCompactedView
  /\ NoNormalizer
  /\ NoValidator
  /\ InitLd2graph
  /\ NoContextCall

SpecGraph == InitGraph /\ [][NextLd2graph]_vars

\* Calls of mergeContext and buildResolvedContext with documents loaded.
InitBase ==
  /\ world \in BaseWorlds
  /\ input = Null
  /\ phase = "ready"
  /\ resolver = "none"
  /\ result = NoResult
  /\ InitLoader
  /\ NoViewer
  /\ NoProcessor
  /\ NoCompactedView
  /\ NoNormalizer
  /\ NoValidator
  /\ NoLd2graph
  /\ NoContextCall

SpecBase == InitBase /\ [][NextContextCall]_vars

(***************************************************************************)
(* Properties of context resolution.                                       *)
(***************************************************************************)
Done(r) == phase = "done" /\ resolver = r

\* The items of a @context value seen as an array (a single value is a
\* one-element array, as in JSON-LD).
ItemsOf(c) == IF c.k = "arr" THEN c.items ELSE <<c>>

\* No term definition in the value carries a term-scoped @context.
RECURSIVE PlainCtx(_)
PlainCtx(c) ==
  IF c.k = "obj" THEN \A x \in DOMAIN c.defs : c.defs[x].sub = Null
  ELSE IF c.k = "arr" THEN \A i \in 1..Len(c.items) : PlainCtx(c.items[i])
  ELSE TRUE

PlainWorld == \A n \in Names : world[n].k = "doc" => PlainCtx(world[n].ctx)

\* Last-write-wins resolution as the JSON-LD array semantics define it: every
\* element is resolved, in order, a URL by the @context of the document it
\* names; only a URL whose own resolution is still in flight yields nothing.
RECURSIVE LastWins(_, _, _, _)
RECURSIVE LastWinsArr(_, _, _, _, _, _)
LastWinsArr(items, i, baseUrl, acc, inflight, fuel) ==
  IF i > Len(items) THEN acc
  ELSE LastWinsArr(items, i + 1, baseUrl,
                   ObjectAssign(acc, LastWins(items[i], baseUrl, inflight, fuel)),
                   inflight, fuel)

LastWins(c, baseUrl, inflight, fuel) ==
  IF fuel = 0 THEN EmptyMap
  ELSE IF c.k = "str" THEN
    LET u == IF c.ref.abs THEN c.ref ELSE Abs(baseUrl.dir, c.ref.name)
    IN IF u \in inflight \/ Served(u).k = "fail" THEN EmptyMap
       ELSE LastWins(Served(u).ctx, u, inflight \cup {u}, fuel - 1)
  ELSE IF c.k = "arr" THEN LastWinsArr(c.items, 1, baseUrl, EmptyMap, inflight, fuel - 1)
  ELSE IF c.k = "obj" THEN c.defs
  ELSE EmptyMap

\* C1: collectAndLoadContexts on an array mixing URLs and inline objects maps
\* every term to the definition of the latest element that defines it, also
\* for the array inside a fetched context document and for a URL that was
\* visited earlier in the same resolution.
CE_C1_LatestElementWins ==
  (Done("collect") /\ input.k = "arr" /\ PlainCtx(input) /\ PlainWorld)
    => (result.status = "ok" /\ result.ctx = LastWins(input, MainUrl, {}, MaxDepth))

AllInline(c) == c.k = "arr" /\ \A i \in 1..Len(c.items) : c.items[i].k = "obj"

\* The highest index of an element of the array that defines term x (0: none).
LastDefining(items, x) ==
  LET S == {i \in 1..Len(items) : x \in DOMAIN items[i].defs}
  IN IF S = {} THEN 0 ELSE CHOOSE i \in S : \A j \in S : j <= i

DefinedTerms(items) == UNION {DOMAIN items[i].defs : i \in 1..Len(items)}

HighestIndexWins ==
  /\ result.status = "ok"
  /\ DefinedTerms(input.items) \subseteq DOMAIN result.ctx
  /\ \A x \in DefinedTerms(input.items) :
       result.ctx[x] = input.items[LastDefining(input.items, x)].defs[x]

\* C2 as stated: for every array of inline object contexts, every resolver
\* returns for each term the definition of the highest-index element that
\* defines it, and every defined term is present.
CE_C2_InlineArrays ==
  (phase = "done" /\ AllInline(input)) => HighestIndexWins

\* C2 amended: the same, for resolveContext and combine on every array of
\* inline objects, and for collectAndLoadContexts on every such array none of
\* whose term definitions carries a term-scoped @context.
T_C2_InlineArraysPlain ==
  (phase = "done" /\ AllInline(input) /\ (resolver = "collect" => PlainCtx(input)))
    => HighestIndexWins

W_C2_Overlap ==
  /\ Done("collect") /\ AllInline(input) /\ Len(input.items) = 2
  /\ \E x \in DOMAIN input.items[1].defs \cap DOMAIN input.items[2].defs :
       /\ input.items[1].defs[x] # input.items[2].defs[x]
       /\ result.ctx[x] = input.items[2].defs[x]

\* The @context value refers to the document named n.
RefersTo(c, n) == \E i \in 1..Len(ItemsOf(c)) :
                    ItemsOf(c)[i].k = "str" /\ ItemsOf(c)[i].ref.name = n

\* The terms the inline objects of a @context value define.
InlineTerms(c) == UNION {DOMAIN ItemsOf(c)[i].defs :
                           i \in {j \in 1..Len(ItemsOf(c)) : ItemsOf(c)[j].k = "obj"}}

\* The definition the last inline object of a @context value gives to term x.
LastInlineDef(c, x) ==
  LET S == {j \in 1..Len(ItemsOf(c)) : ItemsOf(c)[j].k = "obj" /\ x \in DOMAIN ItemsOf(c)[j].defs}
  IN ItemsOf(c)[CHOOSE i \in S : \A j \in S : j <= i].defs[x]

CycleAB ==
  /\ world["A"].k = "doc" /\ RefersTo(world["A"].ctx, "B")
  /\ world["B"].k = "doc" /\ RefersTo(world["B"].ctx, "A")

FetchedAs(r, baseUrl) ==
  IF resolver = "collect" /\ ~r.abs THEN resolveUrl(r, baseUrl) ELSE r

\* fetchDocument(FetchedAs(r, baseUrl)) throws.
FetchFails(r, baseUrl) ==
  ~FetchedAs(r, baseUrl).abs \/ Served(FetchedAs(r, baseUrl)).k = "fail"

FailingItem(c, baseUrl) == c.k = "str" /\ FetchFails(c.ref, baseUrl)

Resolve(c) ==
  IF resolver = "collect" THEN collectAndLoadContexts(c, MainUrl, St0, MaxDepth)
  ELSE resolveContext(c, MainUrl, St0, MaxDepth)

\* The array without its elements whose fetch fails.
WithoutFailing(items) == SelectSeq(items, LAMBDA c : ~FailingItem(c, MainUrl))

\* C4: a fetch failure of one referenced context never aborts the resolution:
\* the call does not throw, the failing reference contributes nothing, the
\* other elements of the array contribute what they contribute without it,
\* and the inline terms of the enclosing context document stay in the result.
T_C4_FailureAbsorbed ==
  (phase = "done" /\ resolver \in {"collect", "viewer"}) =>
    /\ result.status # "threw"
    /\ resolver = "collect" => result.status = "ok"
    /\ FailingItem(input, MainUrl) => (result.status = "ok" /\ result.ctx = EmptyMap)
    /\ (input.k = "arr" /\ result.status = "ok")
         => result.ctx = Resolve(Arr(WithoutFailing(input.items))).ctx
    /\ (input.k = "str" /\ ~FetchFails(input.ref, MainUrl) /\ result.status = "ok"
          /\ Served(FetchedAs(input.ref, MainUrl)).ctx.k = "arr")
         => InlineTerms(Served(FetchedAs(input.ref, MainUrl)).ctx) \subseteq DOMAIN result.ctx

W_C4_SiblingOfFailure ==
  /\ Done("collect") /\ input.k = "arr" /\ Len(input.items) = 2
  /\ input.items[1] = Str(Rel("A")) /\ world["A"].k = "fail"
  /\ input.items[2].k = "obj"
  /\ result.status = "ok"
  /\ DOMAIN input.items[2].defs \subseteq DOMAIN result.ctx
  /\ Abs("d1", "A") \in result.st.loaded

LoadedAfter(n) ==
  collectAndLoadContexts(Arr(SubSeq(input.items, 1, n)), MainUrl, St0, MaxDepth).st.loaded

Without(items, j) == SubSeq(items, 1, j - 1) \o SubSeq(items, j + 1, Len(items))

CE_C6_RelativeResolved ==
  (phase = "done" /\ input.k = "str" /\ ~input.ref.abs
     /\ Served(Abs(MainUrl.dir, input.ref.name)).k = "doc"
     /\ Served(Abs(MainUrl.dir, input.ref.name)).ctx.k = "obj")
    => /\ result.status = "ok"
       /\ DOMAIN Served(Abs(MainUrl.dir, input.ref.name)).ctx.defs \subseteq DOMAIN result.ctx

\* C7 as stated: resolving an inline context object returns exactly the
\* object's own term definitions and follows no term-scoped @context.
CE_C7_OwnTermsOnly ==
  (phase = "done" /\ resolver \in {"collect", "viewer"} /\ input.k = "obj")
    => (result.status = "ok" /\ result.ctx = input.defs /\ result.st.cache = {})

ScopedTerms(defs) == {x \in DOMAIN defs : Truthy(defs[x].sub)}

\* C7 amended: resolveContext returns exactly the object's own definitions and
\* fetches nothing. collectAndLoadContexts does so only when no definition
\* carries a @context; a term-scoped @context is followed (fetched when it is
\* a URL) and its terms are merged over the object's own.
T_C7_ScopedFollowedByLoader ==
  (phase = "done" /\ resolver \in {"collect", "viewer"} /\ input.k = "obj") =>
    /\ result.status = "ok"
    /\ (resolver = "viewer" \/ ScopedTerms(input.defs) = {})
         => (result.ctx = input.defs /\ result.st.cache = {})
    /\ (resolver = "collect" /\ Cardinality(ScopedTerms(input.defs)) = 1) =>
         LET x == CHOOSE y \in ScopedTerms(input.defs) : TRUE
             n == collectAndLoadContexts(input.defs[x].sub, MainUrl, St0, MaxDepth)
         IN /\ result.ctx = ObjectAssign(input.defs, n.ctx)
            /\ result.st = n.st

W_C7_ScopedMerged ==
  /\ Done("collect") /\ input = ObjNU /\ world["B"] = Doc(ObjB)
  /\ result.ctx["t"] = Plain("b")
  /\ Abs("d1", "B") \in result.st.cache

\* C8: a @context that is neither string, object, array nor null makes the
\* resolution fail with an error; a null @context gives an empty mapping.
CE_C8_MalformedRejected ==
  phase = "done" =>
    /\ input = Num => result.status = "threw"
    /\ input = Null => (result.status # "threw" /\ result.ctx = EmptyMap)

CE_C10_SingleFlight ==
  \A c1, c2 \in Calls :
    (c1 # c2 /\ calls[c1].pc = "awaiting" /\ calls[c2].pc = "awaiting")
      => calls[c1].url # calls[c2].url

(***************************************************************************)
(* Properties of the viewer page.                                          *)
(***************************************************************************)
\* Load l leaves the synchronous prefix of loadData in this step.
BeginsFetching(l) == loads[l].pc = "idle" /\ loads'[l].pc = "main"

\* C11: when a loadData invocation begins fetching, the document cache, the
\* context-document cache, the documents map, the entity index and the merged
\* context are all empty.
T_C11_FreshSession ==
  [][\A l \in Loads :
       BeginsFetching(l) =>
         /\ loadedDocuments' = EmptyCache
         /\ contextDocuments' = EmptyCache
         /\ documents' = <<>>
         /\ entityIndex' = {}
         /\ mergedContext' = EmptyMap]_vars

\* A second load has begun fetching after an earlier one had stored its
\* documents: what the earlier load stored is gone.
W_C11_SecondLoadCleared ==
  /\ loads[1].pc = "loaded"
  /\ loads[2].pc = "main"
  /\ documents = <<>>
  /\ loadedDocuments = EmptyCache

(***************************************************************************)
(* Properties of manual expansion.                                         *)
(***************************************************************************)
\* The definition is an object whose @type is "@id" or "@vocab".
IsLinkedDefAny(def) ==
  def.k = "obj" /\ <<"@type">> \in DOMAIN def.m
    /\ def.m[<<"@type">>] \in {JString(<<"@id">>), JString(<<"@vocab">>)}

\* A single-key reference object {"@id": iri}.
IsReference(v) == v.k = "obj" /\ DOMAIN v.m = {<<"@id">>} /\ v.m[<<"@id">>].k = "str"
AllStrings(v) == v.k = "arr" /\ \A i \in DOMAIN v.items : v.items[i].k = "str"

\* A document with one entry was expanded to one object with one entry.
OneEntry ==
  /\ expansion.k = "done"
  /\ expansion.doc.k = "obj"
  /\ Cardinality(DOMAIN expansion.doc.m) = 1
  /\ expansion.out.k = "arr" /\ Len(expansion.out.items) = 1
  /\ expansion.out.items[1].k = "obj"
  /\ Cardinality(DOMAIN expansion.out.items[1].m) = 1

TheKey(m) == CHOOSE key \in DOMAIN m : TRUE
EntryDef ==
  LET key == TheKey(expansion.doc.m)
  IN IF key \in DOMAIN resolvedContext THEN resolvedContext[key] ELSE JNull
EntryIn == expansion.doc.m[TheKey(expansion.doc.m)]
EntryOut == expansion.out.items[1].m[TheKey(expansion.out.items[1].m)]

\* C12: a term is linked iff its definition is an object whose @type is
\* "@id" or "@vocab"; the string value of a linked term is expanded to a
\* reference object, an array of strings to an array of reference objects,
\* and a value of a term that is not linked is never wrapped.
CE_C12_LinkedIffTyped ==
  OneEntry =>
    /\ (IsLinkedDefAny(EntryDef) /\ EntryIn.k = "str") => IsReference(EntryOut)
    /\ (IsLinkedDefAny(EntryDef) /\ AllStrings(EntryIn)) =>
          /\ EntryOut.k = "arr"
          /\ \A i \in DOMAIN EntryOut.items : IsReference(EntryOut.items[i])
    /\ (~IsLinkedDefAny(EntryDef) /\ EntryIn.k \in {"str", "num"}) => EntryOut = EntryIn
    /\ (~IsLinkedDefAny(EntryDef) /\ AllStrings(EntryIn)) => EntryOut = EntryIn

\* A key of an expanded object is a keyword or an absolute IRI.
IsKeyword(key) == key \in {<<"@id">>, <<"@type">>, <<"@value">>, <<"@graph">>,
                           <<"@list">>, <<"@set">>, <<"@language">>}
IsAbsoluteIri(key) == Len(key) >= 3 /\ key[1] \in {"http", "https"} /\ key[2] = Colon

RECURSIVE KeysExpanded(_)
KeysExpanded(v) ==
  IF v.k = "obj"
  THEN \A key \in DOMAIN v.m :
         (IsKeyword(key) \/ IsAbsoluteIri(key)) /\ KeysExpanded(v.m[key])
  ELSE IF v.k = "arr" THEN \A i \in DOMAIN v.items : KeysExpanded(v.items[i])
  ELSE TRUE

\* C13: the manual expansion of a document (here one whose keys are plain
\* terms) is an array of objects, and every key in it that is not a keyword
\* is an absolute IRI, whatever the resolved context.
CE_C13_AbsoluteKeys ==
  (expansion.k = "done" /\ expansion.doc.k = "obj"
     /\ \A key \in DOMAIN expansion.doc.m : ~IncludesColon(key)) =>
    /\ expansion.out.k = "arr"
    /\ \A i \in DOMAIN expansion.out.items : expansion.out.items[i].k = "obj"
    /\ KeysExpanded(expansion.out)

\* Everything after the first colon of a prefixed identifier.
WholeSuffix(s) == SubSeq(s, ColonFrom(s, 1) + 1, Len(s))
PrefixOf(s) == SubSeq(s, 1, ColonFrom(s, 1) - 1)
IsIri(context, key) ==
  key \in DOMAIN context /\ context[key].k = "str" /\ IsAbsoluteIri(context[key].s)

\* C14: expandIri maps p:s with p defined as IRI P to P followed by all of
\* s, an identifier without a colon to @base (else @vocab) followed by it,
\* and leaves an absolute http(s) IRI unchanged.
CE_C14_ExpandIri ==
  (iri.k = "done" /\ iri.value.k = "str" /\ iri.value.s # <<>>) =>
    LET v == iri.value.s
    IN /\ IsAbsoluteIri(v) => iri.out = iri.value
       /\ (~IsAbsoluteIri(v) /\ IncludesColon(v) /\ IsIri(resolvedContext, PrefixOf(v))) =>
             iri.out = JString(resolvedContext[PrefixOf(v)].s \o WholeSuffix(v))
       /\ (~IncludesColon(v) /\ IsIri(resolvedContext, <<"@base">>)) =>
             iri.out = JString(resolvedContext[<<"@base">>].s \o v)
       /\ (~IncludesColon(v) /\ ~IsIri(resolvedContext, <<"@base">>)
             /\ IsIri(resolvedContext, <<"@vocab">>)) =>
             iri.out = JString(resolvedContext[<<"@vocab">>].s \o v)

(***************************************************************************)
(* Properties of the compacted view.                                       *)
(***************************************************************************)
\* The entries of a document other than its @context.
Body(doc) == [key \in (DOMAIN doc.m) \ {CtxKey} |-> doc.m[key]]

\* C15: compacting the expansion of a document whose keys are all defined
\* in its context, with the context the viewer chooses, gives back the
\* document's key/value pairs.
CE_C15_RoundTrip ==
  (mainDoc.k = "stored" /\ compacted.k = "done") =>
    /\ compacted.out.k = "obj"
    /\ Body(compacted.out) = Body(mainDoc.raw)

(***************************************************************************)
(* Properties of link substitution.                                        *)
(***************************************************************************)
Max(S) == IF S = {} THEN 0 ELSE CHOOSE x \in S : \A y \in S : y <= x

\* How many substituted documents are nested in one another at and below
\* an item of the view (0 for a bare reference).
RECURSIVE Levels(_)
Levels(item) ==
  IF item.k = "ref" THEN 0
  ELSE 1 + Max({Levels(item.p[i]) : i \in DOMAIN item.p})

\* The deepest substituted document below the main document.
NestedLevels(view) == Max({Levels(view.p[i]) : i \in DOMAIN view.p})

\* C16: in the view of a load with maximum depth d no substituted document
\* is nested more than d levels below the main document (a reference
\* reached after d levels stays a bare {"@id": ...} object).
CE_C16_DepthHonoured ==
  currentViewData.k = "node" =>
    NestedLevels(currentViewData) <= readDepth(controls.depth)

(***************************************************************************)
(* Properties of link-value normalization.                                 *)
(***************************************************************************)
\* A value that is already lower-case and hyphenated.
AlreadyNormal(s) == \A i \in DOMAIN s : s[i] \in {"a", "-", Colon, "http://"}

\* C17: normalization is idempotent: normalizing the normalized value gives
\* the normalized value again, and an already lower-case, hyphenated value
\* comes back identical.
T_C17_Idempotent ==
  normalized.k = "value" =>
    /\ normalize(normalized.out) = normalized.out
    /\ (AlreadyNormal(normalized.in) => normalized.out = normalized.in)

W_C17_UnderscoredUpperCase ==
  /\ normalized.k = "value"
  /\ normalized.in = <<"A", "_", "a">>
  /\ normalized.out = <<"a", "-", "a">>

\* What normalization may do to one value: only a string of a linked field
\* that is neither a full URI nor a name with an upper-case prefix changes.
RECURSIVE Untouched(_, _, _)
Untouched(before, after, linked) ==
  /\ after.k = before.k
  /\ (before.k = "str" /\ (~linked \/ IsFullUri(before.s) \/ HasUpperPrefix(before.s)))
       => after = before
  /\ before.k = "arr" =>
       /\ Len(after.items) = Len(before.items)
       /\ \A i \in DOMAIN before.items : Untouched(before.items[i], after.items[i], linked)
  /\ before.k = "obj" =>
       /\ DOMAIN after.m = DOMAIN before.m
       /\ \A key \in DOMAIN before.m :
            Untouched(before.m[key], after.m[key], linked /\ key \in DOMAIN cmContext
                                                       /\ IsLinkedDefAny(cmContext[key]))
  /\ before.k \notin {"str", "arr", "obj"} => after = before

Started == validator.pc \in {"running", "returned"}
Processed == DOMAIN validator.results

\* The file a step of the pool has just processed is reported as modified
\* whenever validating it without dry_run would have written it.
ReportsWouldModify ==
  \A file_path \in validator.pending \ validator'.pending :
    validate_and_fix_json(file_path, disk, DEFAULT_VALUES, FALSE).written # <<>>
      => validator'.results[file_path].modified

\* C19: with dry_run, no step of the validator writes or renames a file,
\* modified_files stays empty and no commit is made, while each file that
\* would be written is still reported as modified.
T_C19_DryRunChangesNothing ==
  [][(validator'.dry_run /\ validator'.pc \in {"running", "returned"}) =>
       /\ disk' = disk
       /\ git' = git
       /\ validator'.modified_files = <<>>
       /\ ReportsWouldModify]_vars

W_C19_DryRunWithAutoCommit ==
  /\ validator.dry_run /\ validator.auto_commit
  /\ validator.pc = "returned"
  /\ Fa \in Processed /\ validator.results[Fa].message = "Fixed | Would rename"
  /\ validator.stats.modified > 0
  /\ disk[Fb] = Absent
  /\ git = NoGit

FailureMessages ==
  {"Empty file", "Invalid JSON", "JSON root is not an object",
   "Cannot rename - file already exists"}
CouldNotValidate(file_path) == validator.results[file_path].message \in FailureMessages

\* C20: when at least one file of the run could not be validated, run
\* returns False and main exits with code 1; run returns True and main
\* exits with 0 only when every file was validated.
CE_C20_FailureReported ==
  validator.pc = "returned" =>
    IF \E file_path \in Processed : CouldNotValidate(file_path)
    THEN validator.returned = "False" /\ (validator.viaMain => exitCode = 1)
    ELSE validator.returned = "True" /\ (validator.viaMain => exitCode = 0)

\* The file a step of the pool has just processed, and the file that step
\* has written.
JustProcessed == validator.pending \ validator'.pending
JustWrote == Len(validator'.modified_files) > Len(validator.modified_files)
FinalPath == validator'.modified_files[Len(validator'.modified_files)]
ItemOf(x, list) == \E i \in DOMAIN list : list[i] = x

\* C21: the file a non-dry-run validation has written has a `type` that is
\* a list holding "wcrp:<folder>"; the entries of a list found in the file,
\* and a non-empty value that was not a list, are kept in it.
T_C21_TypeListHasFolder ==
  [][\A file_path \in JustProcessed :
       JustWrote =>
         LET type == Get(disk'[FinalPath].data, "type")
             before == disk[file_path].data
             found == Get(before, "type")
         IN /\ type.k = "arr"
            /\ ItemOf(WcrpType(file_path.folder), type.items)
            /\ ("type" \in KeysOf(before) /\ found.k = "arr")
                 => \A i \in DOMAIN found.items : ItemOf(found.items[i], type.items)
            /\ ("type" \in KeysOf(before) /\ found.k = "str" /\ found.s # <<>>)
                 => ItemOf(found.s, type.items)]_vars

W_C21_OtherEntryKept ==
  /\ validator.pc = "returned" /\ ~validator.dry_run
  /\ Fa \in Processed /\ validator.results[Fa].message = "Fixed"
  /\ disk[Fa].k = "obj"
  /\ Get(disk[Fa].data, "type") = JArray(<< <<"x">>, WcrpType("F") >>)

\* C22: the filename is authoritative: after a non-dry-run validation of a
\* file, that file holds an `id` equal to its stem.
CE_C22_FilenameAuthoritative ==
  \A file_path \in Processed :
    (~validator.dry_run /\ ~CouldNotValidate(file_path)) =>
      /\ disk[file_path].k = "obj"
      /\ Get(disk[file_path].data, "id") = JString(file_path.stem)

\* The order the keys of the model are to come out in: the priority keys,
\* the other keys alphabetically, @context, type.
ExpectedOrder ==
  <<"id", "validation-key", "ui-label", "description", "alpha", "zeta", "@context", "type">>
Position(key) == CHOOSE i \in DOMAIN ExpectedOrder : ExpectedOrder[i] = key

CE_C29_DefaultsUntouched ==
  [][\A file_path \in JustProcessed :
       /\ DEFAULT_VALUES' = DEFAULT_VALUES
       /\ (/\ JustWrote
           /\ disk[file_path].k = "obj"
           /\ "type" \notin KeysOf(disk[file_path].data))
            => Get(disk'[FinalPath].data, "type") = JArray(<<WcrpType(file_path.folder)>>)]_vars

\* C30: a second validate_and_fix_json on a file that the non-dry-run
\* validation has written returns (False, "OK"), leaves the file as it is
\* and adds nothing to modified_files.
CE_C30_SecondValidationOK ==
  [][(/\ validator.pc = "returned" /\ validator'.pc = "validated-again"
      /\ ~validator.dry_run
      /\ ItemOf(validator'.second.file_path, validator.modified_files))
       => /\ ~validator'.second.modified
          /\ validator'.second.message = "OK"
          /\ disk' = disk
          /\ validator'.modified_files = validator.modified_files]_vars

(***************************************************************************)
(* Properties of ld2graph.                                                 *)
(***************************************************************************)
\* The context objects in resolution order: those of a referenced file in
\* the place of the reference.
RECURSIVE ObjectsOf(_, _)
RECURSIVE ObjectsOfItems(_, _, _)
ObjectsOf(ctx_file, files) ==
  IF ctx_file \notin DOMAIN files \/ files[ctx_file].k = "absent" THEN <<>>
  ELSE LET found == files[ctx_file].context
       IN IF found.k = "null" THEN <<>>
          ELSE ObjectsOfItems(IF found.k = "arr" THEN found.items ELSE <<found>>, ctx_file.dir, files)

ObjectsOfItems(items, base_dir, files) ==
  IF items = <<>> THEN <<>>
  ELSE (IF Head(items).k = "obj" THEN <<Head(items)>>
        ELSE IF Head(items).k = "str" /\ (IsRelative(Head(items).s) \/ ~IsUrl(Head(items).s))
        THEN ObjectsOf(resolved_path(base_dir, Head(items).s), files)
        ELSE <<>>)
       \o ObjectsOfItems(Tail(items), base_dir, files)

Defines(object, term) == term \in DOMAIN object.m
LastObjectDefining(objects, term) ==
  objects[CHOOSE i \in DOMAIN objects :
            /\ Defines(objects[i], term)
            /\ \A j \in DOMAIN objects : j > i => ~Defines(objects[j], term)]

\* C24: the context resolve_context returns holds, for each term some
\* context defines, exactly the definition of the last context in
\* resolution order that defines it.
CE_C24_LastDefinitionWins ==
  ld2graph.pc \in {"resolved", "written"} =>
    LET objects == ObjectsOf(context_file, ld2graph.files)
    IN /\ DOMAIN ld2graph.resolved.m = UNION {DOMAIN objects[i].m : i \in DOMAIN objects}
       /\ \A term \in DOMAIN ld2graph.resolved.m :
            ld2graph.resolved.m[term] = LastObjectDefining(objects, term).m[term]

(***************************************************************************)
(* Properties of the viewer's context resolution and link loading.         *)
(***************************************************************************)
\* C25: CMIPLDViewer.resolveContext comes to an end on every network of
\* context documents, also one where A names B and B names A: the walk
\* never runs out of the steps a terminating walk of the network needs.
CE_C25_ViewerResolutionTerminates ==
  Done("viewer") => result.status = "ok"

\* C26: a @base already set is never changed by merging: mergeContext
\* leaves the @base of a target that has one, and buildResolvedContext
\* returns the @base of the main document's @context object.
CE_C26_BaseKept ==
  /\ (contextCall.k = "merge" /\ "@base" \in DOMAIN contextCall.target)
       => contextCall.out["@base"] = contextCall.target["@base"]
  /\ (contextCall.k = "build" /\ contextCall.context.k = "obj"
        /\ "@base" \in DOMAIN contextCall.context.defs)
       => contextCall.out["@base"] = contextCall.context.defs["@base"]

\* The documents at link distance at most d of u.
RECURSIVE Within(_, _)
Within(u, d) ==
  IF d = 0 THEN {u}
  ELSE {u} \cup UNION {Within(linkGraph[u][i], d - 1) : i \in DOMAIN linkGraph[u]}

\* C27: when every document can be fetched and nothing was stored before,
\* the load that follows links to depth d stores every document whose link
\* distance from the main document is at most d.
CE_C27_AllWithinDepthLoaded ==
  [][\A l \in Loads :
       (/\ loads[l].pc = "main" /\ loads'[l].pc = "loaded"
        /\ loads[l].followLinks
        /\ documents = <<>> /\ offline = {})
         => \A u \in Within(loads[l].uri, loads[l].depth) :
              \E i \in DOMAIN documents' : documents'[i] = u]_vars

\* No loadData invocation is between its start and its end.
NoLoadInProgress == \A l \in Loads : loads[l].pc = "idle"

\* The documents the request for u can store: u and what its links reach.
BelongsTo(u) == Within(u, Cardinality(VDocs))

\* C28: once every loadData invocation has finished, the documents map, the
\* loader cache and the displayed view hold only documents of the latest
\* request, the one that set mainDocumentUrl.
CE_C28_LatestRequestOnly ==
  (NoLoadInProgress /\ mainDocumentUrl # NoUrl) =>
    /\ \A i \in DOMAIN documents : documents[i] \in BelongsTo(mainDocumentUrl)
    /\ \A u \in DOMAIN loadedDocuments : u \in BelongsTo(mainDocumentUrl)
    /\ currentViewData.k = "node" => currentViewData.id \in BelongsTo(mainDocumentUrl)

====
